---- MODULE Spec2Model ----
(***************************************************************************)
(* A model of the pyiv dependency-injection runtime: the binding registry  *)
(* (Config), the scopes and providers, and the Injector's resolution       *)
(* algorithm.  Python dictionaries are functions with a dynamic domain,    *)
(* object identity is the index of the object in the heap, an exception is *)
(* the err field of the result of a call.                                  *)
(***************************************************************************)
EXTENDS Integers, Sequences, FiniteSets, TLC

VARIABLES heap, scopeObjs, configs, injectors, gss, gsr, log, pc

vars == <<heap, scopeObjs, configs, injectors, gss, gsr, log, pc>>

(***************************************************************************)
(* Bounds of the model.                                                    *)
(***************************************************************************)
MaxObj == 6
MaxRegs == 2
MaxCalls == 2
MaxConfigs == 2
MaxInjectors == 2
NThreads == 2
MaxDepth == 4

Threads == 1..NThreads

(***************************************************************************)
(* The classes of the application under injection.                         *)
(***************************************************************************)
Types == {"object", "Database", "PostgreSQL", "MySQL", "Cache",
          "Handler", "HandlerA", "HandlerB", "Service", "Dispatcher", "Registry",
          "Node", "Ping", "Pong"}

\* classes with abstract methods: calling them raises TypeError
AbstractTypes == {"Database", "Handler"}

Bases(c) ==
    CASE c = "PostgreSQL" -> {"PostgreSQL", "Database", "object"}
      [] c = "MySQL" -> {"MySQL", "Database", "object"}
      [] c = "HandlerA" -> {"HandlerA", "Handler", "object"}
      [] c = "HandlerB" -> {"HandlerB", "Handler", "object"}
      [] OTHER -> {c, "object"}

issubclass(c, b) == b \in Bases(c)

\* isinstance(c, b) for a class object c: a class is an instance of its
\* metaclass "type" and of "object", never of itself unless it is object
isinstance_class(c, b) == b \in {"type", "object"}

P(name, kind, type, hasDefault) ==
    [name |-> name, kind |-> kind, type |-> type, hasDefault |-> hasDefault]

\* inspect.signature(cls.__init__) without self: the annotated parameters
Params(c) ==
    CASE c = "Service" -> << P("db", "plain", "Database", FALSE),
                             P("cache", "optional", "Cache", TRUE) >>
      [] c = "Dispatcher" -> << P("handlers", "list", "Handler", FALSE) >>
      [] c = "Registry" -> << P("plugins", "set", "Handler", FALSE) >>
      [] c = "PostgreSQL" -> << P("host", "builtin", "str", TRUE),
                                P("port", "builtin", "int", TRUE) >>
      [] c = "Node" -> << P("parent", "plain", "Node", FALSE) >>
      [] c = "Ping" -> << P("pong", "plain", "Pong", FALSE) >>
      [] c = "Pong" -> << P("ping", "optional", "Ping", TRUE) >>
      [] OTHER -> << >>

(***************************************************************************)
(* Python dictionaries.                                                    *)
(***************************************************************************)
EmptyDict == [x \in {} |-> 0]

Has(d, k) == k \in DOMAIN d

Put(d, k, v) == [x \in (DOMAIN d) \cup {k} |-> IF x = k THEN v ELSE d[x]]

Get(d, k, dflt) == IF k \in DOMAIN d THEN d[k] ELSE dflt

(***************************************************************************)
(* Values.  None is 0, an object is its positive index in the heap.        *)
(***************************************************************************)
None == 0

NoneVal == [k |-> "none", o |-> 0, l |-> << >>, s |-> {}]
ObjVal(o) == [k |-> "obj", o |-> o, l |-> << >>, s |-> {}]
ListVal(l) == [k |-> "list", o |-> 0, l |-> l, s |-> {}]
SetVal(s) == [k |-> "set", o |-> 0, l |-> << >>, s |-> s]
DefaultVal == [k |-> "default", o |-> 0, l |-> << >>, s |-> {}]
ProviderVal(c) == [k |-> "provider", o |-> 0, l |-> << c >>, s |-> {}]
StrVal(x) == [k |-> "str", o |-> 0, l |-> << x >>, s |-> {}]

\* what a call returns: a value, or the exception it raised
Ok(v) == [err |-> "none", v |-> v]
Raise(e) == [err |-> e, v |-> 0]

\* registered concretes: a class, a zero-argument factory function that
\* returns cls(), or an object that is neither a class nor callable
NoConcrete == [k |-> "none", v |-> "", o |-> 0]
TypeConcrete(c) == [k |-> "type", v |-> c, o |-> 0]
FactoryConcrete(c) == [k |-> "factory", v |-> c, o |-> 0]
InstanceConcrete(o) == [k |-> "instance", v |-> "", o |-> o]

\* providers
NoProvider == [k |-> "none", cls |-> "", o |-> 0, inj |-> 0]
InstanceProvider(o) == [k |-> "InstanceProvider", cls |-> "", o |-> o, inj |-> 0]
FactoryProvider(c) == [k |-> "FactoryProvider", cls |-> c, o |-> 0, inj |-> 0]
\* FactoryProvider(scope.scope(c, FactoryProvider(c))): the factory is the
\* callable that the scope object returned
FactoryProviderOfScoped(scope, c) ==
    [k |-> "FactoryProviderOfScoped", cls |-> c, o |-> scope, inj |-> 0]
InjectorProvider(c, i) == [k |-> "InjectorProvider", cls |-> c, o |-> 0, inj |-> i]

\* the keys of the qualified bindings
Key(type, qualifier) == [type |-> type, qualifier |-> qualifier]

\* Key.__init__: the parameter named type shadows the builtin, so the check
\* isinstance(type, type) asks whether the class is an instance of itself
KeyInit(type, qualifier) ==
    IF isinstance_class(type, type) THEN Ok(Key(type, qualifier)) ELSE Raise("TypeError")

(***************************************************************************)
(* The state the operations work on, as one record.                        *)
(***************************************************************************)
St == [heap |-> heap, scopeObjs |-> scopeObjs, configs |-> configs,
       injectors |-> injectors, gss |-> gss, gsr |-> gsr,
       locked |-> FALSE, rev |-> FALSE]

NewObject(st, cls, args) ==
    [st EXCEPT !.heap = Append(st.heap, [cls |-> cls, args |-> args])]

\* NoScope(), SingletonScope(), GlobalSingletonScope()
NewScope(st, kind) ==
    [st EXCEPT !.scopeObjs = Append(st.scopeObjs, [kind |-> kind, instances |-> EmptyDict])]

\* Config.__init__ with the base configure()
EmptyConfig ==
    [registrations |-> EmptyDict, instances |-> EmptyDict,
     singleton_types |-> EmptyDict, scopes |-> EmptyDict,
     providers |-> EmptyDict, qualified_bindings |-> EmptyDict,
     multibindings |-> EmptyDict, script |-> << >>,
     chain_by_type |-> EmptyDict, chain_by_name |-> EmptyDict,
     chain_instances |-> EmptyDict, chain_singleton_types |-> EmptyDict]

\* Injector.__init__
NewInjectorRec(c) ==
    [config |-> c, singletons |-> EmptyDict, scoped_instances |-> EmptyDict,
     chain_singletons |-> EmptyDict]

R(st, err, v) == [st |-> st, err |-> err, v |-> v]

\* r = call(...) followed by the statements Body that use r
With(r, Body(_)) == Body(r)

(***************************************************************************)
(* Config: the registration methods.                                       *)
(***************************************************************************)
SetConfig(st, c, cfg) == [st EXCEPT !.configs[c] = cfg]

Register(st, c, abstract, concrete, singleton, singleton_type, scope, provider) ==
    IF singleton /\ singleton_type # "NONE" THEN R(st, "ValueError", 0)
    ELSE
    LET stype == IF singleton THEN "SINGLETON" ELSE singleton_type
        convert == scope = None /\ stype # "NONE"
        st1 == IF convert
               THEN NewScope(st, IF stype = "GLOBAL_SINGLETON"
                                 THEN "GlobalSingletonScope" ELSE "SingletonScope")
               ELSE st
        scope1 == IF convert THEN Len(st1.scopeObjs) ELSE scope
        cfg == st1.configs[c]
        cfg1 == IF scope1 # None
                THEN [cfg EXCEPT !.scopes = Put(cfg.scopes, abstract, scope1)]
                ELSE cfg
    IN  IF provider.k # "none"
        THEN R(SetConfig(st1, c,
                 [cfg1 EXCEPT !.providers = Put(cfg1.providers, abstract, provider),
                              !.registrations =
                                  IF concrete.k = "type"
                                  THEN Put(cfg1.registrations, abstract, concrete)
                                  ELSE cfg1.registrations]), "none", 0)
        ELSE
        LET cfg2 == IF stype # "NONE"
                    THEN [cfg1 EXCEPT !.singleton_types =
                                          Put(cfg1.singleton_types, abstract, stype)]
                    ELSE cfg1
            cfg3 == IF stype = "SINGLETON" /\ concrete.k = "type"
                    THEN [cfg2 EXCEPT !.instances = Put(cfg2.instances, abstract, None),
                                      !.registrations =
                                          Put(cfg2.registrations, abstract, concrete)]
                    ELSE IF concrete.k = "instance"
                    THEN [cfg2 EXCEPT !.instances =
                                          Put(cfg2.instances, abstract, concrete.o),
                                      !.registrations =
                                          Put(cfg2.registrations, abstract,
                                              TypeConcrete(st1.heap[concrete.o].cls))]
                    ELSE [cfg2 EXCEPT !.registrations =
                                          Put(cfg2.registrations, abstract, concrete)]
        IN  R(SetConfig(st1, c, cfg3), "none", 0)

RegisterInstance(st, c, abstract, instance) ==
    LET cfg == st.configs[c]
    IN  SetConfig(st, c,
            [cfg EXCEPT !.instances = Put(cfg.instances, abstract, instance),
                        !.registrations = Put(cfg.registrations, abstract,
                                              TypeConcrete(st.heap[instance].cls))])

RegisterProvider(st, c, abstract, provider) ==
    LET cfg == st.configs[c]
    IN  SetConfig(st, c, [cfg EXCEPT !.providers = Put(cfg.providers, abstract, provider)])

\* implementation is a class (it has no get attribute) or a provider object
RegisterKey(st, c, key, implementation, scope) ==
    LET cfg == st.configs[c]
        provider == IF implementation.k = "provider" THEN implementation.p ELSE NoProvider
    IN  SetConfig(st, c,
            [cfg EXCEPT !.qualified_bindings =
                Put(cfg.qualified_bindings, key,
                    [type |-> key.type, provider |-> provider, scope |-> scope])])

\* Config.register_chain_handler; the arguments of the model are a string
\* and a subclass of ChainHandler, so that the checks pass
RegisterChainHandler(st, c, chain_type, handler_type, handler_class, singleton_type) ==
    LET cfg == st.configs[c]
        key == <<chain_type, handler_type>>
    IN  SetConfig(st, c,
            [cfg EXCEPT !.chain_by_type = Put(@, key, handler_class),
                        !.chain_singleton_types =
                            IF singleton_type # "NONE" THEN Put(@, key, singleton_type) ELSE @])

\* Config.register_chain_handler_by_name
RegisterChainHandlerByName(st, c, chain_type, name, handler_class, handler_type, stype) ==
    LET cfg == st.configs[c]
        key == <<chain_type, name>>
    IN  SetConfig(st, c,
            [cfg EXCEPT !.chain_by_name =
                            Put(@, key, [cls |-> handler_class, handler_type |-> handler_type]),
                        !.chain_singleton_types =
                            IF stype # "NONE" THEN Put(@, key, stype) ELSE @])

NoMultibinding ==
    [present |-> FALSE, set_impls |-> {}, list_impls |-> << >>,
     set_instances |-> {}, list_instances |-> << >>]

\* a registration whose list part drops an implementation already present
RegisterMultibinding_Dedup(st, c, interface, implementation, as_set) ==
    LET cfg == st.configs[c]
        old == IF Has(cfg.multibindings, interface)
               THEN cfg.multibindings[interface]
               ELSE [NoMultibinding EXCEPT !.present = TRUE]
        new == IF as_set
               THEN [old EXCEPT !.set_impls = @ \cup {implementation}]
               ELSE [old EXCEPT !.list_impls =
                        IF \E n \in 1..Len(@) : @[n] = implementation
                        THEN @ ELSE Append(@, implementation)]
    IN  SetConfig(st, c, [cfg EXCEPT !.multibindings = Put(cfg.multibindings, interface, new)])

\* a registration that ignores as_set and always appends to the list part
RegisterMultibinding_ListOnly(st, c, interface, implementation, as_set) ==
    LET cfg == st.configs[c]
        old == IF Has(cfg.multibindings, interface)
               THEN cfg.multibindings[interface]
               ELSE [NoMultibinding EXCEPT !.present = TRUE]
        new == [old EXCEPT !.list_impls = Append(@, implementation)]
    IN  SetConfig(st, c, [cfg EXCEPT !.multibindings = Put(cfg.multibindings, interface, new)])

RegisterMultibinding(st, c, interface, implementation, as_set) ==
    LET cfg == st.configs[c]
        old == IF Has(cfg.multibindings, interface)
               THEN cfg.multibindings[interface]
               ELSE [NoMultibinding EXCEPT !.present = TRUE]
        new == IF as_set
               THEN [old EXCEPT !.set_impls = @ \cup {implementation}]
               ELSE [old EXCEPT !.list_impls = Append(@, implementation)]
    IN  SetConfig(st, c, [cfg EXCEPT !.multibindings = Put(cfg.multibindings, interface, new)])

get_multibinding(cfg, interface) == Get(cfg.multibindings, interface, NoMultibinding)

get_registration(cfg, abstract) == Get(cfg.registrations, abstract, NoConcrete)

\* what dict.get returns for a missing key, for a class and for a pair
NoHandler == ""

NoNamedHandler == [cls |-> "", handler_type |-> ""]

get_chain_handler_registration(cfg, chain_type, handler_type) ==
    Get(cfg.chain_by_type, <<chain_type, handler_type>>, NoHandler)

get_chain_handler_registration_by_name(cfg, chain_type, name) ==
    Get(cfg.chain_by_name, <<chain_type, name>>, NoNamedHandler)

get_chain_handler_instance(cfg, chain_type, name) ==
    Get(cfg.chain_instances, <<chain_type, name>>, None)

get_chain_handler_singleton_type(cfg, chain_type, name) ==
    Get(cfg.chain_singleton_types, <<chain_type, name>>, "NONE")

get_instance(cfg, abstract) == Get(cfg.instances, abstract, None)

has_registration(cfg, abstract) == Has(cfg.registrations, abstract)

\* a lookup whose default is SINGLETON instead of NONE
get_singleton_type_Singleton(cfg, abstract) == Get(cfg.singleton_types, abstract, "SINGLETON")

get_singleton_type(cfg, abstract) == Get(cfg.singleton_types, abstract, "NONE")

get_scope(cfg, abstract) == Get(cfg.scopes, abstract, None)

get_provider(cfg, abstract) == Get(cfg.providers, abstract, NoProvider)

NoBinding == [type |-> "", provider |-> NoProvider, scope |-> None]

get_key_binding(cfg, key) == Get(cfg.qualified_bindings, key, NoBinding)

\* SetMultibinder.add and ListMultibinder.add: the implementation goes to the
\* builder's own collection, the Config is not touched
MultibinderAdd(st, c, interface, as_set, implementation) ==
    IF ~issubclass(implementation, interface) THEN R(st, "TypeError", 0)
    ELSE R(st, "none", 0)

(***************************************************************************)
(* Injector: the resolution algorithm.  Every operator returns the state   *)
(* it leaves behind together with the value returned or the exception      *)
(* raised.  d is the remaining recursion depth.                            *)
(***************************************************************************)
\* except Exception
Caught_Exception(e) == e # "none"

\* except (ValueError, TypeError)
Caught(e) == e \in {"ValueError", "TypeError"}

CfgOf(st, i) == st.configs[st.injectors[i].config]

\* the order in which a Python set of classes is iterated
TypeOrder == << "object", "Database", "PostgreSQL", "MySQL", "Cache",
                "Handler", "HandlerA", "HandlerB", "Service", "Dispatcher", "Registry" >>

Reverse(s) == [n \in 1..Len(s) |-> s[Len(s) + 1 - n]]

SetIteration(st, S) ==
    LET ord == IF st.rev THEN Reverse(TypeOrder) ELSE TypeOrder
    IN  SelectSeq(ord, LAMBDA c : c \in S)

\* Scope.scope(key, provider): NoScope hands the provider back, the two
\* singleton scopes return a local function
ScopeScope(st, scope, key, provider) ==
    IF st.scopeObjs[scope].kind = "NoScope"
    THEN [k |-> "provider", provider |-> provider, scope |-> scope, key |-> key]
    ELSE [k |-> "function", provider |-> provider, scope |-> scope, key |-> key]

\* cls(**bound_kwargs)
Construct(st, cls, args) ==
    IF cls \in AbstractTypes THEN R(st, "TypeError", 0)
    ELSE LET st1 == NewObject(st, cls, args) IN R(st1, "none", Len(st1.heap))

\* a zero-argument factory function whose body is cls()
CallFactory(st, cls) ==
    IF \E n \in 1..Len(Params(cls)) : ~Params(cls)[n].hasDefault
    THEN R(st, "TypeError", 0)
    ELSE Construct(st, cls,
             [x \in {Params(cls)[n].name : n \in 1..Len(Params(cls))} |-> DefaultVal])

RECURSIVE Inject(_, _, _, _, _)
RECURSIVE InjectScoped(_, _, _, _, _, _)
RECURSIVE InjectGlobalCreate(_, _, _, _, _)
RECURSIVE Instantiate(_, _, _, _, _)
RECURSIVE ResolveDependencies(_, _, _, _, _, _, _)
RECURSIVE InjectAll(_, _, _, _, _)
RECURSIVE ProviderGet(_, _, _)
RECURSIVE ScopedProvider(_, _, _)
RECURSIVE CallGet(_, _, _)

\* InstanceProvider.get, FactoryProvider.get, InjectorProvider.get
ProviderGet(st, p, d) ==
    CASE p.k = "InstanceProvider" -> R(st, "none", p.o)
      [] p.k = "FactoryProvider" -> CallFactory(st, p.cls)
      [] p.k = "InjectorProvider" -> Inject(st, p.inj, p.cls, EmptyDict, d)
      [] p.k = "FactoryProviderOfScoped" ->
            LET x == ScopeScope(st, p.o, p.cls, FactoryProvider(p.cls))
            IN  IF x.k = "function" THEN ScopedProvider(st, x, d) ELSE R(st, "TypeError", 0)
      [] OTHER -> R(st, "AttributeError", 0)

\* the body of the function scoped_provider of the two singleton scopes
ScopedProvider(st, f, d) ==
    IF st.scopeObjs[f.scope].kind = "SingletonScope"
    THEN LET cache == st.scopeObjs[f.scope].instances
         IN  IF Has(cache, f.key) THEN R(st, "none", cache[f.key])
             ELSE With(ProviderGet(st, f.provider, d), LAMBDA r :
                      IF r.err # "none" THEN r
                      ELSE R([r.st EXCEPT !.scopeObjs[f.scope].instances =
                                              Put(@, f.key, r.v)], "none", r.v))
    ELSE IF st.locked THEN R(st, "Deadlock", 0)
    ELSE IF Has(st.gss, f.key) THEN R(st, "none", st.gss[f.key])
    ELSE With(ProviderGet([st EXCEPT !.locked = TRUE], f.provider, d), LAMBDA r :
             IF r.err # "none" THEN R([r.st EXCEPT !.locked = FALSE], r.err, 0)
             ELSE R([r.st EXCEPT !.locked = FALSE, !.gss = Put(@, f.key, r.v)],
                    "none", r.v))

\* x.get() for what Scope.scope returned: a function has no attribute get
CallGet(st, x, d) ==
    IF x.k = "function" THEN R(st, "AttributeError", 0)
    ELSE ProviderGet(st, x.provider, d)

InjectScoped(st, i, cls, scope, kwargs, d) ==
    LET st1 == IF Has(st.injectors[i].scoped_instances, scope) THEN st
               ELSE [st EXCEPT !.injectors[i].scoped_instances = Put(@, scope, EmptyDict)]
        scope_cache == st1.injectors[i].scoped_instances[scope]
    IN  IF Has(scope_cache, cls) THEN R(st1, "none", scope_cache[cls])
        ELSE
        LET provider == InjectorProvider(cls, i)
            scoped_provider == ScopeScope(st1, scope, cls, provider)
        IN  With(CallGet(st1, scoped_provider, d), LAMBDA r :
                IF r.err # "none" THEN r
                ELSE IF st1.scopeObjs[scope].kind \in {"SingletonScope", "GlobalSingletonScope"}
                THEN R([r.st EXCEPT !.injectors[i].scoped_instances[scope] =
                                        Put(@, cls, r.v)], "none", r.v)
                ELSE r)

\* Injector._instantiate
Instantiate(st, i, concrete, kwargs, d) ==
    IF concrete.k = "factory" THEN CallFactory(st, concrete.v)
    ELSE IF concrete.k = "type"
    THEN With(ResolveDependencies(st, i, Params(concrete.v), 1, EmptyDict, kwargs, d),
              LAMBDA b : IF b.err # "none" THEN R(b.st, b.err, 0)
                         ELSE Construct(b.st, concrete.v, b.v))
    ELSE R(st, "TypeError", 0)

\* inject every class of the sequence impls, leaving out those whose
\* injection raises ValueError or TypeError; v is the sequence of instances
InjectAll(st, i, impls, acc, d) ==
    IF impls = << >> THEN R(st, "none", acc)
    ELSE With(Inject(st, i, Head(impls), EmptyDict, d), LAMBDA r :
             IF r.err = "none" THEN InjectAll(r.st, i, Tail(impls), Append(acc, r.v), d)
             ELSE IF Caught(r.err) THEN InjectAll(r.st, i, Tail(impls), acc, d)
             ELSE R(r.st, r.err, acc))

Range(s) == {s[n] : n \in 1..Len(s)}

\* Injector._resolve_dependencies, from parameter n on; v is the dictionary
\* of the resolved keyword arguments
ResolveDependencies(st, i, params, n, resolved, kwargs, d) ==
    IF n > Len(params) THEN R(st, "none", resolved)
    ELSE
    LET param == params[n]
        cfg == CfgOf(st, i)
        next(st1, val) ==
            ResolveDependencies(st1, i, params, n + 1, Put(resolved, param.name, val), kwargs, d)
        usedefault(st1) ==
            IF param.hasDefault THEN next(st1, DefaultVal)
            ELSE R(st1, "ValueError", resolved)
        multibinding == get_multibinding(cfg, param.type)
    IN  IF Has(kwargs, param.name) THEN next(st, kwargs[param.name])
        ELSE IF param.kind = "provider"
        THEN next(st, ProviderVal(param.type))
        ELSE IF param.kind = "optional"
        THEN With(Inject(st, i, param.type, EmptyDict, d), LAMBDA r :
                 IF r.err = "none" THEN next(r.st, ObjVal(r.v))
                 ELSE IF Caught(r.err) THEN next(r.st, NoneVal)
                 ELSE R(r.st, r.err, resolved))
        ELSE IF param.kind = "set" /\ multibinding.present
        THEN With(InjectAll(st, i, SetIteration(st, multibinding.set_impls), << >>, d),
                  LAMBDA r :
                 IF r.err # "none" THEN R(r.st, r.err, resolved)
                 ELSE next(r.st, SetVal(Range(multibinding.list_instances) \cup Range(r.v))))
        ELSE IF param.kind = "list" /\ multibinding.present
        THEN With(InjectAll(st, i, multibinding.list_impls, << >>, d), LAMBDA r :
                 IF r.err # "none" THEN R(r.st, r.err, resolved)
                 ELSE next(r.st, ListVal(multibinding.list_instances \o r.v)))
        ELSE IF param.kind = "plain" /\ has_registration(cfg, param.type)
        THEN With(Inject(st, i, param.type, EmptyDict, d), LAMBDA r :
                 IF r.err = "none" THEN next(r.st, ObjVal(r.v))
                 ELSE IF Caught(r.err) THEN usedefault(r.st)
                 ELSE R(r.st, r.err, resolved))
        ELSE usedefault(st)

\* the GLOBAL_SINGLETON branch of Injector.inject after the registry had no
\* instance: create one and store it
InjectGlobalCreate(st, i, cls, kwargs, d) ==
    LET concrete == get_registration(CfgOf(st, i), cls)
    IN  With(IF concrete.k = "none" THEN Instantiate(st, i, TypeConcrete(cls), kwargs, d)
             ELSE Instantiate(st, i, concrete, kwargs, d), LAMBDA r :
            IF r.err # "none" THEN r
            ELSE R([r.st EXCEPT !.gsr = Put(@, cls, r.v)], "none", r.v))

\* Injector.inject for a class
Inject(st, i, cls, kwargs, d) ==
    IF d = 0 THEN R(st, "RecursionError", 0)
    ELSE
    LET cfg == CfgOf(st, i)
        provider == get_provider(cfg, cls)
        scope == get_scope(cfg, cls)
        singleton_type == get_singleton_type(cfg, cls)
        instance == get_instance(cfg, cls)
        concrete == get_registration(cfg, cls)
        c == st.injectors[i].config
    IN  IF provider.k # "none" THEN ProviderGet(st, provider, d - 1)
        ELSE IF scope # None /\ st.scopeObjs[scope].kind # "NoScope"
        THEN InjectScoped(st, i, cls, scope, kwargs, d - 1)
        ELSE IF singleton_type = "GLOBAL_SINGLETON"
        THEN IF Get(st.gsr, cls, None) # None THEN R(st, "none", st.gsr[cls])
             ELSE InjectGlobalCreate(st, i, cls, kwargs, d - 1)
        ELSE IF instance # None THEN R(st, "none", instance)
        ELSE IF singleton_type = "SINGLETON" /\ Has(st.injectors[i].singletons, cls)
        THEN R(st, "none", st.injectors[i].singletons[cls])
        ELSE IF concrete.k = "none"
        THEN With(Instantiate(st, i, TypeConcrete(cls), kwargs, d - 1), LAMBDA r :
                 IF r.err # "none" THEN r
                 ELSE IF singleton_type = "SINGLETON"
                 THEN R([r.st EXCEPT !.injectors[i].singletons = Put(@, cls, r.v)],
                        "none", r.v)
                 ELSE r)
        ELSE IF Has(cfg.instances, cls) /\ cfg.instances[cls] = None
        THEN With(Instantiate(st, i, concrete, kwargs, d - 1), LAMBDA r :
                 IF r.err # "none" THEN r
                 ELSE R([r.st EXCEPT !.injectors[i].singletons = Put(@, cls, r.v),
                                     !.configs[c].instances = Put(@, cls, r.v)],
                        "none", r.v))
        ELSE With(Instantiate(st, i, concrete, kwargs, d - 1), LAMBDA r :
                 IF r.err # "none" THEN r
                 ELSE IF singleton_type = "SINGLETON" \/ Has(CfgOf(r.st, i).instances, cls)
                 THEN R([r.st EXCEPT !.injectors[i].singletons = Put(@, cls, r.v)],
                        "none", r.v)
                 ELSE r)

\* Injector._inject_key
InjectKey(st, i, key, kwargs, d) ==
    LET cfg == CfgOf(st, i)
        binding == get_key_binding(cfg, key)
    IN  IF binding = NoBinding THEN R(st, "ValueError", 0)
        ELSE IF binding.provider.k # "none"
            THEN IF binding.scope # None
                 THEN CallGet(st, ScopeScope(st, binding.scope, key.type, binding.provider), d)
                 ELSE ProviderGet(st, binding.provider, d)
            ELSE IF binding.scope # None
            THEN InjectScoped(st, i, binding.type, binding.scope, kwargs, d)
            ELSE Inject(st, i, binding.type, kwargs, d)

(***************************************************************************)
(* The calls an application makes in configure().  A call is a record, so  *)
(* that a Config class is the sequence of the calls of its configure().    *)
(***************************************************************************)
Op(op, abstract, concrete, ckind, singleton, singleton_type, scopeSel, provSel, qual, as_set) ==
    [op |-> op, abstract |-> abstract, concrete |-> concrete, ckind |-> ckind,
     singleton |-> singleton, singleton_type |-> singleton_type,
     scopeSel |-> scopeSel, provSel |-> provSel, qual |-> qual, as_set |-> as_set]

\* register(abstract, concrete, singleton=, singleton_type=, scope=, provider=)
OpRegister(abstract, concrete, ckind, singleton, singleton_type, scopeSel, provSel) ==
    Op("register", abstract, concrete, ckind, singleton, singleton_type, scopeSel, provSel,
       "", FALSE)
\* register_instance(abstract, concrete())
OpRegisterInstance(abstract, concrete) ==
    Op("register_instance", abstract, concrete, "instance", FALSE, "NONE", "None", "None",
       "", FALSE)
\* register_provider(abstract, provider)
OpRegisterProvider(abstract, provSel, concrete) ==
    Op("register_provider", abstract, concrete, "type", FALSE, "NONE", "None", provSel,
       "", FALSE)
\* get_binder().bind(abstract).to_instance(concrete()).in_scope(scope)
OpBindToInstance(abstract, concrete, scopeSel) ==
    Op("bind_to_instance", abstract, concrete, "instance", FALSE, "NONE", scopeSel, "None",
       "", FALSE)
\* get_binder().bind(abstract).to(concrete).in_scope(scope)
OpBindTo(abstract, concrete, scopeSel) ==
    Op("bind_to", abstract, concrete, "type", FALSE, "NONE", scopeSel, "None", "", FALSE)
\* get_binder().bind_key(Key(abstract, Named(qual))).to(concrete)
OpBindKeyTo(abstract, qual, concrete) ==
    Op("bind_key_to", abstract, concrete, "type", FALSE, "NONE", "None", "None", qual, FALSE)
\* register_chain_handler(chain_type, handler_type, handler_class, singleton_type=)
OpRegisterChainHandler(chain_type, handler_type, handler_class, singleton_type) ==
    [op |-> "register_chain_handler", chain_type |-> chain_type, abstract |-> handler_type,
     concrete |-> handler_class, singleton_type |-> singleton_type, qual |-> ""]
\* register_chain_handler_by_name(chain_type, name, handler_class, handler_type,
\*                                singleton_type=)
OpRegisterChainHandlerByName(chain_type, name, handler_class, handler_type, singleton_type) ==
    [op |-> "register_chain_handler_by_name", chain_type |-> chain_type,
     abstract |-> handler_type, concrete |-> handler_class,
     singleton_type |-> singleton_type, qual |-> name]
\* register_key(Key(abstract, Named(qual)), concrete, scope=)
OpRegisterKey(abstract, qual, concrete, scopeSel) ==
    Op("register_key", abstract, concrete, "type", FALSE, "NONE", scopeSel, "None", qual, FALSE)
\* register_multibinding(abstract, concrete, as_set=)
OpRegisterMultibinding(abstract, concrete, as_set) ==
    Op("register_multibinding", abstract, concrete, "type", FALSE, "NONE", "None", "None",
       "", as_set)
\* multibinder(abstract, as_set).add(concrete)
OpMultibinderAdd(abstract, as_set, concrete) ==
    Op("multibinder_add", abstract, concrete, "type", FALSE, "NONE", "None", "None",
       "", as_set)

\* the module-level scope object that several bindings may share
SharedScope == 1

\* the scope argument of a call: None, the shared object or a new object
MakeScope(st, scopeSel) ==
    IF scopeSel = "None" THEN R(st, "none", None)
    ELSE IF scopeSel = "shared" THEN R(st, "none", SharedScope)
    ELSE LET st1 == NewScope(st, scopeSel) IN R(st1, "none", Len(st1.scopeObjs))

\* the concrete argument of a call: a class, a factory or a new object
MakeConcrete(st, ckind, cls) ==
    IF ckind = "instance"
    THEN LET st1 == NewObject(st, cls, EmptyDict)
         IN  R(st1, "none", InstanceConcrete(Len(st1.heap)))
    ELSE IF ckind = "factory" THEN R(st, "none", FactoryConcrete(cls))
    ELSE R(st, "none", TypeConcrete(cls))

\* the provider argument of a call
MakeProvider(st, provSel, cls) ==
    IF provSel = "InstanceProvider"
    THEN LET st1 == NewObject(st, cls, EmptyDict)
         IN  R(st1, "none", InstanceProvider(Len(st1.heap)))
    ELSE IF provSel = "FactoryProvider" THEN R(st, "none", FactoryProvider(cls))
    ELSE R(st, "none", NoProvider)

\* ConfigBindingBuilder.in_scope on a finalized builder
InScope(st, c, abstract, scope) ==
    SetConfig(st, c, [st.configs[c] EXCEPT !.scopes = Put(@, abstract, scope)])

\* one call of configure() on the Config c
ApplyOp(st, c, op) ==
    LET s == MakeScope(st, op.scopeSel)
        k == MakeConcrete(s.st, op.ckind, op.concrete)
        p == MakeProvider(k.st, op.provSel, op.concrete)
    IN  CASE op.op = "register" ->
                Register(p.st, c, op.abstract, k.v, op.singleton, op.singleton_type, s.v, p.v)
          [] op.op = "register_instance" ->
                R(RegisterInstance(p.st, c, op.abstract, k.v.o), "none", 0)
          [] op.op = "register_provider" ->
                R(RegisterProvider(p.st, c, op.abstract, p.v), "none", 0)
          [] op.op = "bind_to_instance" ->
                LET st1 == RegisterInstance(p.st, c, op.abstract, k.v.o)
                IN  R(IF s.v # None THEN InScope(st1, c, op.abstract, s.v) ELSE st1, "none", 0)
          [] op.op = "bind_to" ->
                LET n == NewScope(p.st, "NoScope")
                    r == Register(n, c, op.abstract, k.v, FALSE, "NONE",
                                  Len(n.scopeObjs), NoProvider)
                IN  R(IF s.v # None THEN InScope(r.st, c, op.abstract, s.v) ELSE r.st, "none", 0)
          [] op.op = "bind_key_to" ->
                LET key == KeyInit(op.abstract, op.qual)
                    n == NewScope(p.st, "NoScope")
                IN  IF key.err # "none" THEN R(st, key.err, 0)
                    ELSE Register(n, c, key.v.type, k.v, FALSE, "NONE",
                                  Len(n.scopeObjs), NoProvider)
          [] op.op = "register_chain_handler" ->
                R(RegisterChainHandler(st, c, op.chain_type, op.abstract, op.concrete,
                                       op.singleton_type), "none", 0)
          [] op.op = "register_chain_handler_by_name" ->
                R(RegisterChainHandlerByName(st, c, op.chain_type, op.qual, op.concrete,
                                             op.abstract, op.singleton_type), "none", 0)
          [] op.op = "register_key" ->
                LET key == KeyInit(op.abstract, op.qual)
                IN  IF key.err # "none" THEN R(st, key.err, 0)
                    ELSE R(RegisterKey(p.st, c, key.v,
                                       IF p.v.k # "none"
                                       THEN [k |-> "provider", p |-> p.v]
                                       ELSE [k |-> "type", p |-> NoProvider], s.v),
                           "none", 0)
          [] op.op = "register_multibinding" ->
                R(RegisterMultibinding(p.st, c, op.abstract, op.concrete, op.as_set), "none", 0)
          [] op.op = "multibinder_add" ->
                MultibinderAdd(p.st, c, op.abstract, op.as_set, op.concrete)

RECURSIVE RunConfigure(_, _, _)
\* Config.__init__ of a Config class: every call of its configure(), in order
RunConfigure(st, c, script) ==
    IF script = << >> THEN st
    ELSE RunConfigure(ApplyOp(st, c, Head(script)).st, c, Tail(script))

(***************************************************************************)
(* The state machine.                                                      *)
(***************************************************************************)
Idle == [at |-> "idle", inj |-> 0, cls |-> ""]

Init ==
    /\ heap = << >>
    /\ scopeObjs = << [kind |-> "SingletonScope", instances |-> EmptyDict] >>
    /\ configs = << EmptyConfig >>
    /\ injectors = << >>
    /\ gss = EmptyDict
    /\ gsr = EmptyDict
    /\ log = << >>
    /\ pc = [t \in Threads |-> Idle]

Sealed(c) == \E i \in 1..Len(injectors) : injectors[i].config = c

SetState(st) ==
    /\ Len(st.heap) <= MaxObj
    /\ heap' = st.heap
    /\ scopeObjs' = st.scopeObjs
    /\ configs' = st.configs
    /\ injectors' = st.injectors
    /\ gss' = st.gss
    /\ gsr' = st.gsr

\* the record of a call and of what it returned or raised
Entry(op, i, type, qual, r) ==
    [op |-> op, inj |-> i, type |-> type, qual |-> qual, err |-> r.err, v |-> r.v]

\* a call returns or raises: its effects on the state and its record in the log
Returns(op, i, type, qual, r) ==
    /\ SetState(r.st)
    /\ log' = Append(log, Entry(op, i, type, qual, r))

\* the calls made so far, those in progress included
Calls == Len(log) + Cardinality({u \in Threads : pc[u].at # "idle"})

\* a call of configure() has raised: the exception leaves Config.__init__
\* and there is no Config to make an injector for
Aborted == \E n \in 1..Len(log) : log[n].inj = 0

\* one call of configure() of the Config under construction; a call that
\* raises is not part of a Config class
Configure(op, max) ==
    /\ ~Sealed(1)
    /\ ~Aborted
    /\ Len(configs[1].script) < max
    /\ LET r == ApplyOp(St, 1, op)
       IN  /\ r.err = "none"
           /\ SetState([r.st EXCEPT !.configs[1].script = Append(@, op)])
    /\ UNCHANGED <<log, pc>>

\* a call of configure() that raises: nothing is registered
ConfigureFails(op) ==
    /\ ~Sealed(1)
    /\ ~Aborted
    /\ LET r == ApplyOp(St, 1, op)
       IN  /\ r.err # "none"
           /\ log' = Append(log, Entry(op.op, 0, op.abstract, op.qual, r))
    /\ UNCHANGED <<heap, scopeObjs, configs, injectors, gss, gsr, pc>>

\* get_injector(config) for the Config instance c
GetInjector(c) ==
    /\ c \in 1..Len(configs)
    /\ ~Aborted
    /\ Len(injectors) < MaxInjectors
    /\ injectors' = Append(injectors, NewInjectorRec(c))
    /\ UNCHANGED <<heap, scopeObjs, configs, gss, gsr, log, pc>>

\* get_injector(ConfigClass) for the class of the first Config: a new Config
\* instance runs configure() again
GetInjectorOfClass ==
    /\ Sealed(1)
    /\ Len(configs) < MaxConfigs
    /\ Len(injectors) < MaxInjectors
    /\ LET st0 == [St EXCEPT !.configs = Append(@, EmptyConfig)]
           c == Len(st0.configs)
           st1 == RunConfigure(st0, c, configs[1].script)
       IN  SetState([st1 EXCEPT !.configs[c].script = configs[1].script,
                                !.injectors = Append(@, NewInjectorRec(c))])
    /\ UNCHANGED <<log, pc>>

\* the GLOBAL_SINGLETON branch of inject finds no instance in the registry
GlobalMissing(i, cls) ==
    LET cfg == configs[injectors[i].config]
        scope == get_scope(cfg, cls)
    IN  /\ get_provider(cfg, cls).k = "none"
        /\ (IF scope = None THEN TRUE ELSE scopeObjs[scope].kind = "NoScope")
        /\ get_singleton_type(cfg, cls) = "GLOBAL_SINGLETON"
        /\ Get(gsr, cls, None) = None

\* an idle thread calls inject(cls) on the injector i, at most max calls
InjectCall(i, cls, rev, max) ==
    /\ \E t \in Threads : pc[t].at = "idle"
    /\ i \in 1..Len(injectors)
    /\ Calls < max
    /\ ~GlobalMissing(i, cls)
    /\ Returns("inject", i, cls, "", Inject([St EXCEPT !.rev = rev], i, cls, EmptyDict, MaxDepth))
    /\ UNCHANGED pc

\* thread t calls inject(cls) and GlobalSingletonRegistry.get returns None
InjectGlobalMiss(t, i, cls) ==
    /\ pc[t].at = "idle"
    /\ i \in 1..Len(injectors)
    /\ Calls < MaxCalls
    /\ GlobalMissing(i, cls)
    /\ pc' = [pc EXCEPT ![t] = [at |-> "global_miss", inj |-> i, cls |-> cls]]
    /\ UNCHANGED <<heap, scopeObjs, configs, injectors, gss, gsr, log>>

\* thread t creates the instance, stores it in the registry and returns it
InjectGlobalStore(t) ==
    /\ pc[t].at = "global_miss"
    /\ Returns("inject", pc[t].inj, pc[t].cls, "",
               InjectGlobalCreate(St, pc[t].inj, pc[t].cls, EmptyDict, MaxDepth - 1))
    /\ pc' = [pc EXCEPT ![t] = Idle]

\* an idle thread calls inject(cls, host=host) on the injector i; the entry
\* of the log keeps the value of host in its field qual
InjectKwargsCall(i, cls, host) ==
    /\ \E t \in Threads : pc[t].at = "idle"
    /\ i \in 1..Len(injectors)
    /\ Calls < MaxCalls
    /\ ~GlobalMissing(i, cls)
    /\ Returns("inject", i, cls, host,
               Inject(St, i, cls, [x \in {"host"} |-> StrVal(host)], MaxDepth))
    /\ UNCHANGED pc

\* an idle thread calls inject(Key(type, Named(qual))) on the injector i
InjectKeyCall(i, type, qual) ==
    /\ \E t \in Threads : pc[t].at = "idle"
    /\ i \in 1..Len(injectors)
    /\ Calls < MaxCalls
    /\ LET key == KeyInit(type, qual)
       IN  Returns("inject_key", i, type, qual,
                   IF key.err # "none" THEN R(St, key.err, 0)
                   ELSE InjectKey(St, i, key.v, EmptyDict, MaxDepth))
    /\ UNCHANGED pc

(***************************************************************************)
(* Lifecycle of a binding: the registrations of Database and the calls of  *)
(* inject(Database) on several injectors and threads.                      *)
(***************************************************************************)
SingletonTypes == {"NONE", "SINGLETON", "GLOBAL_SINGLETON"}

ScopeOps ==
    {OpRegister("Database", "PostgreSQL", "type", FALSE, stype, sel, "None") :
        stype \in SingletonTypes,
        sel \in {"None", "NoScope", "SingletonScope", "GlobalSingletonScope"}}
    \cup {OpRegister("Database", "PostgreSQL", "type", TRUE, stype, "None", "None") :
        stype \in {"NONE", "SINGLETON"}}
    \cup {OpRegister("Database", "PostgreSQL", "type", FALSE, "NONE", sel, "FactoryProvider") :
        sel \in {"None", "SingletonScope"}}
    \cup {OpRegister("Database", "PostgreSQL", ckind, FALSE, "NONE", "None", "None") :
        ckind \in {"factory", "instance"}}
    \cup {OpRegisterInstance("Database", "PostgreSQL"),
          OpRegisterProvider("Database", "FactoryProvider", "PostgreSQL")}
    \cup {OpBindToInstance("Database", "PostgreSQL", sel) : sel \in {"NoScope", "SingletonScope"}}

Next ==
    \/ \E op \in ScopeOps : Configure(op, MaxRegs)
    \/ \E op \in ScopeOps : ConfigureFails(op)
    \/ \E c \in 1..MaxConfigs : GetInjector(c)
    \/ GetInjectorOfClass
    \/ \E i \in 1..MaxInjectors : InjectCall(i, "Database", FALSE, MaxCalls)
    \/ \E t \in Threads, i \in 1..MaxInjectors : InjectGlobalMiss(t, i, "Database")
    \/ \E t \in Threads : InjectGlobalStore(t)

Spec == Init /\ [][Next]_vars

(***************************************************************************)
(* Properties of the lifecycle of a binding.                               *)
(***************************************************************************)
Injects(i, cls) ==
    {n \in 1..Len(log) : log[n].op = "inject" /\ log[n].inj = i /\ log[n].type = cls}

ConfigOf(i) == configs[injectors[i].config]

ScriptOf(i) == ConfigOf(i).script

\* register(T, Impl, singleton_type=SINGLETON) or register(T, Impl, singleton=True)
IsSingletonRegistration(op) ==
    /\ op.op = "register" /\ op.ckind = "type"
    /\ op.scopeSel = "None" /\ op.provSel = "None"
    /\ (op.singleton \/ op.singleton_type = "SINGLETON")

\* register(T, Impl, scope=SingletonScope()) with a scope of its own
IsSingletonScopeRegistration(op) ==
    /\ op.op = "register" /\ op.ckind = "type"
    /\ op.scopeSel = "SingletonScope" /\ op.provSel = "None"
    /\ ~op.singleton /\ op.singleton_type = "NONE"

\* register(T, Impl, singleton_type=GLOBAL_SINGLETON) or scope=GlobalSingletonScope()
IsGlobalRegistration(op) ==
    /\ op.op = "register" /\ op.ckind = "type" /\ op.provSel = "None" /\ ~op.singleton
    /\ \/ op.scopeSel = "None" /\ op.singleton_type = "GLOBAL_SINGLETON"
       \/ op.scopeSel = "GlobalSingletonScope" /\ op.singleton_type = "NONE"

\* C1: when the only registration of Database is a per-injector singleton
\* registration, every inject(Database) on one injector returns an instance
\* and any two of them return the identical instance.
C1_SingletonSameInstance ==
    \A i \in 1..Len(injectors) :
        (Len(ScriptOf(i)) = 1 /\ IsSingletonRegistration(ScriptOf(i)[1]))
        => \A m, n \in Injects(i, "Database") :
               /\ log[m].err = "none"
               /\ log[m].v = log[n].v

\* C2: two injectors made by get_injector from the same Config class, whose
\* only registration of Database is a per-injector singleton, each return an
\* instance from inject(Database), and the two instances are distinct.
C2_SingletonPerInjector ==
    \A i, j \in 1..Len(injectors) :
        (/\ injectors[i].config # injectors[j].config
         /\ ScriptOf(i) = ScriptOf(j)
         /\ Len(ScriptOf(i)) = 1
         /\ \/ IsSingletonRegistration(ScriptOf(i)[1])
            \/ IsSingletonScopeRegistration(ScriptOf(i)[1]))
        => \A m \in Injects(i, "Database"), n \in Injects(j, "Database") :
               /\ log[m].err = "none" /\ log[n].err = "none"
               /\ log[m].v # log[n].v

(***************************************************************************)
(* Transient bindings: the registrations that leave Database without a     *)
(* caching scope, among registrations that do not.                         *)
(***************************************************************************)
TransientOps ==
    {OpRegister("Database", "PostgreSQL", "type", FALSE, "NONE", sel, "None") :
        sel \in {"None", "NoScope", "SingletonScope", "GlobalSingletonScope"}}
    \cup {OpRegister("Database", "PostgreSQL", "factory", FALSE, "NONE", "None", "None"),
          OpRegister("Database", "PostgreSQL", "type", FALSE, "SINGLETON", "NoScope", "None"),
          OpRegisterInstance("Database", "PostgreSQL")}
    \cup {OpBindTo("Database", "PostgreSQL", sel) : sel \in {"None", "NoScope"}}

NextTransient ==
    \/ \E op \in TransientOps : Configure(op, MaxRegs)
    \/ \E c \in 1..MaxConfigs : GetInjector(c)
    \/ GetInjectorOfClass
    \/ \E i \in 1..MaxInjectors : InjectCall(i, "Database", FALSE, MaxCalls)

SpecTransient == Init /\ [][NextTransient]_vars

\* the binding of cls is transient: a class or a factory is registered, no
\* provider, no instance and no singleton type is recorded, and the scope
\* is absent or a NoScope
Transient(cfg, cls) ==
    /\ Has(cfg.registrations, cls)
    /\ ~Has(cfg.providers, cls)
    /\ ~Has(cfg.instances, cls)
    /\ ~Has(cfg.singleton_types, cls)
    /\ (Has(cfg.scopes, cls) => scopeObjs[cfg.scopes[cls]].kind = "NoScope")

C4_GlobalSingletonShared ==
    \A m, n \in 1..Len(log) :
        (/\ log[m].op = "inject" /\ log[n].op = "inject"
         /\ log[m].type = "Database" /\ log[n].type = "Database"
         /\ \A e \in {m, n} : /\ Len(ScriptOf(log[e].inj)) = 1
                              /\ IsGlobalRegistration(ScriptOf(log[e].inj)[1]))
        => /\ log[m].err = "none"
           /\ log[m].v = log[n].v
           /\ Cardinality({o \in 1..Len(heap) : heap[o].cls = "PostgreSQL"}) = 1

\* C5: when the last call of configure() binds Database to an instance x,
\* every inject(Database) returns x, whatever the earlier calls recorded and
\* whatever scope the binder attached afterwards.
C5_InstanceBypassesScope ==
    \A i \in 1..Len(injectors) :
        LET script == ScriptOf(i)
        IN  (/\ Len(script) >= 1
             /\ script[Len(script)].op \in {"register_instance", "bind_to_instance"})
            => \A n \in Injects(i, "Database") :
                   /\ log[n].err = "none"
                   /\ log[n].v = ConfigOf(i).instances["Database"]

(***************************************************************************)
(* Qualified bindings: register_key and inject(Key).                       *)
(***************************************************************************)
Qualifiers == {"a", "b"}

KeyOps ==
    {OpRegisterKey(type, qual, impl, sel) :
        type \in {"object", "Database"}, qual \in Qualifiers,
        impl \in {"PostgreSQL", "MySQL"}, sel \in {"None", "shared"}}

NextKey ==
    \/ \E op \in KeyOps : Configure(op, MaxRegs)
    \/ \E op \in KeyOps : ConfigureFails(op)
    \/ GetInjector(1)
    \/ \E i \in 1..MaxInjectors, type \in {"object", "Database"}, qual \in Qualifiers :
           InjectKeyCall(i, type, qual)

SpecKey == Init /\ [][NextKey]_vars

\* the calls register_key(Key(type, Named(qual)), ...) of a configure()
KeyRegistrations(script, type, qual) ==
    {k \in 1..Len(script) : /\ script[k].op = "register_key"
                            /\ script[k].abstract = type /\ script[k].qual = qual}

\* C6: when Key(T, Named(a)) and Key(T, Named(b)) are registered to two
\* different implementations, inject of each key returns an instance of the
\* implementation registered for that key, and the two keys never yield the
\* same instance.
C6_QualifiedKeysIndependent ==
    \A i \in 1..Len(injectors), type \in {"object", "Database"} :
        LET script == ScriptOf(i)
            ra == KeyRegistrations(script, type, "a")
            rb == KeyRegistrations(script, type, "b")
        IN  (/\ ra # {} /\ rb # {}
             /\ \A x \in ra, y \in rb : script[x].concrete # script[y].concrete)
            => \A m, n \in 1..Len(log) :
                   (/\ log[m].op = "inject_key" /\ log[m].inj = i /\ log[m].type = type
                    /\ log[n].op = "inject_key" /\ log[n].inj = i /\ log[n].type = type)
                   => /\ log[m].err = "none"
                      /\ \E x \in KeyRegistrations(script, type, log[m].qual) :
                             heap[log[m].v].cls = script[x].concrete
                      /\ (log[m].qual # log[n].qual => log[m].v # log[n].v)

(***************************************************************************)
(* Multibindings: register_multibinding, the multibinder builders and the  *)
(* injection of List[Handler] and Set[Handler] parameters.                 *)
(***************************************************************************)
MaxMultiRegs == 3
MaxMultiCalls == 1

MultiOps ==
    {OpRegisterMultibinding("Handler", impl, as_set) :
        impl \in {"HandlerA", "HandlerB"}, as_set \in BOOLEAN}
    \cup {OpMultibinderAdd("Handler", as_set, impl) :
        impl \in {"HandlerA", "Cache"}, as_set \in BOOLEAN}
    \cup {OpRegister("HandlerA", "HandlerA", "type", FALSE, "SINGLETON", "None", "None")}

NextMulti ==
    \/ \E op \in MultiOps : Configure(op, MaxMultiRegs)
    \/ \E op \in MultiOps : ConfigureFails(op)
    \/ GetInjector(1)
    \/ \E i \in 1..MaxInjectors : InjectCall(i, "Dispatcher", FALSE, MaxMultiCalls)
    \/ \E i \in 1..MaxInjectors, rev \in BOOLEAN : InjectCall(i, "Registry", rev, MaxMultiCalls)

SpecMulti == Init /\ [][NextMulti]_vars

\* C7: after multibinder(Handler, as_set).add(Impl) with Impl a subclass of
\* Handler, get_multibinding(Handler) contains Impl, in the set part when
\* as_set is true and in the list part otherwise.
C7_MultibinderAddRegisters ==
    \A c \in 1..Len(configs) :
        \A k \in 1..Len(configs[c].script) :
            LET op == configs[c].script[k]
                mb == get_multibinding(configs[c], op.abstract)
            IN  op.op = "multibinder_add"
                => IF op.as_set THEN op.concrete \in mb.set_impls
                   ELSE op.concrete \in Range(mb.list_impls)

\* the implementations that the calls register_multibinding(interface, ...,
\* as_set=) of a configure() name, in the order of the calls
Registered(script, interface, as_set) ==
    LET ops == SelectSeq(script, LAMBDA op : /\ op.op = "register_multibinding"
                                              /\ op.abstract = interface
                                              /\ op.as_set = as_set)
    IN  [n \in 1..Len(ops) |-> ops[n].concrete]

HasMultibinding(script, interface) ==
    \E k \in 1..Len(script) :
        script[k].op = "register_multibinding" /\ script[k].abstract = interface

OnlyMultibindings(script) ==
    \A k \in 1..Len(script) : script[k].op \in {"register_multibinding", "multibinder_add"}

\* C8: the list injected for a List[Handler] parameter has one element per
\* list registration, in the order of the registrations and with the
\* duplicates kept: element n is an instance of the n-th registered class.
\* When only multibindings are configured the injection succeeds.
C8_ListInRegistrationOrder ==
    \A n \in 1..Len(log) :
        LET script == ScriptOf(log[n].inj)
            L == Registered(script, "Handler", FALSE)
        IN  (/\ log[n].op = "inject" /\ log[n].type = "Dispatcher"
             /\ HasMultibinding(script, "Handler"))
            => /\ (OnlyMultibindings(script) => log[n].err = "none")
               /\ (log[n].err = "none" =>
                      LET handlers == heap[log[n].v].args["handlers"]
                      IN  /\ handlers.k = "list"
                          /\ Len(handlers.l) = Len(L)
                          /\ \A e \in 1..Len(L) : heap[handlers.l[e]].cls = L[e])

\* inject(Dispatcher) returned for the list multibinding [A, B, A]
C8_Witness ==
    \E n \in 1..Len(log) :
        /\ log[n].op = "inject" /\ log[n].type = "Dispatcher" /\ log[n].err = "none"
        /\ Registered(ScriptOf(log[n].inj), "Handler", FALSE)
               = << "HandlerA", "HandlerB", "HandlerA" >>
        /\ Len(heap[log[n].v].args["handlers"].l) = 3

\* C9: the set injected for a Set[Handler] parameter has exactly one
\* instance of every class registered in the set part, whatever the order
\* of the registrations and however often a class was registered.  When
\* only multibindings are configured the injection succeeds.
C9_SetOnePerImplementation ==
    \A n \in 1..Len(log) :
        LET script == ScriptOf(log[n].inj)
            S == Range(Registered(script, "Handler", TRUE))
        IN  (/\ log[n].op = "inject" /\ log[n].type = "Registry"
             /\ HasMultibinding(script, "Handler"))
            => /\ (OnlyMultibindings(script) => log[n].err = "none")
               /\ (log[n].err = "none" =>
                      LET plugins == heap[log[n].v].args["plugins"]
                      IN  /\ plugins.k = "set"
                          /\ Cardinality(plugins.s) = Cardinality(S)
                          /\ {heap[o].cls : o \in plugins.s} = S)

\* inject(Registry) returned two plugins after the set registrations A, B, A
C9_Witness ==
    \E n \in 1..Len(log) :
        /\ log[n].op = "inject" /\ log[n].type = "Registry" /\ log[n].err = "none"
        /\ Registered(ScriptOf(log[n].inj), "Handler", TRUE)
               = << "HandlerA", "HandlerB", "HandlerA" >>
        /\ Cardinality(heap[log[n].v].args["plugins"].s) = 2

(***************************************************************************)
(* Optional parameters: Service(db: Database, cache: Optional[Cache]).     *)
(***************************************************************************)
OptionalOps ==
    {OpRegister("Database", "PostgreSQL", "type", FALSE, "NONE", "None", "None")}
    \cup {OpRegister("Cache", "Cache", "type", FALSE, stype, "None", "None") :
        stype \in {"NONE", "SINGLETON"}}

NextOptional ==
    \/ \E op \in OptionalOps : Configure(op, MaxRegs)
    \/ \E c \in 1..MaxConfigs : GetInjector(c)
    \/ GetInjectorOfClass
    \/ \E i \in 1..MaxInjectors, cls \in {"Service", "Cache"} : InjectCall(i, cls, FALSE, MaxCalls)

SpecOptional == Init /\ [][NextOptional]_vars

\* C10: when Database is bound and Cache has no registration, inject(Service)
\* succeeds with cache set to None; when Cache is registered to itself,
\* inject(Service) succeeds with cache set to an instance of Cache.
C10_OptionalNoneUntilRegistered ==
    \A n \in 1..Len(log) :
        LET cfg == ConfigOf(log[n].inj)
        IN  (/\ log[n].op = "inject" /\ log[n].type = "Service"
             /\ Transient(cfg, "Database"))
            => /\ (~has_registration(cfg, "Cache")
                      => /\ log[n].err = "none"
                         /\ heap[log[n].v].args["cache"].k = "none")
               /\ (Transient(cfg, "Cache")
                      => /\ log[n].err = "none"
                         /\ heap[log[n].v].args["cache"].k = "obj"
                         /\ heap[heap[log[n].v].args["cache"].o].cls = "Cache")

(***************************************************************************)
(* Keyword overrides: inject(Database, host=...) on a singleton binding.   *)
(***************************************************************************)
Hosts == {"first", "second"}

KwargsOps ==
    {OpRegister("Database", "PostgreSQL", "type", FALSE, stype, sel, "None") :
        stype \in {"NONE", "SINGLETON"}, sel \in {"None", "NoScope"}}

NextKwargs ==
    \/ \E op \in KwargsOps : Configure(op, MaxRegs)
    \/ GetInjector(1)
    \/ \E i \in 1..MaxInjectors, host \in Hosts : InjectKwargsCall(i, "Database", host)

SpecKwargs == Init /\ [][NextKwargs]_vars

\* C11: when the only registration of Database is a per-injector singleton,
\* the first inject(Database, host=h) on an injector returns an instance
\* built with host = h, and every later inject(Database, host=h2) on that
\* injector returns the same instance, whose host is still h.
C11_SingletonKeepsFirstKwargs ==
    \A i \in 1..Len(injectors) :
        (Len(ScriptOf(i)) = 1 /\ IsSingletonRegistration(ScriptOf(i)[1]))
        => \A m, n \in Injects(i, "Database") :
               m <= n => /\ log[m].err = "none" /\ log[n].err = "none"
                         /\ log[n].v = log[m].v
                         /\ (\A e \in Injects(i, "Database") : m <= e)
                                => heap[log[n].v].args["host"] = StrVal(log[m].qual)

(***************************************************************************)
(* Re-registration: register(Database, C1, ...) followed by                *)
(* register(Database, C2, ...).                                            *)
(***************************************************************************)
ReregisterOps ==
    {OpRegister("Database", impl, "type", FALSE, stype, sel, "None") :
        impl \in {"PostgreSQL", "MySQL"}, stype \in {"NONE", "SINGLETON"},
        sel \in {"None", "NoScope"}}
    \cup {OpRegister("Database", "PostgreSQL", "type", FALSE, "NONE", "None", "FactoryProvider")}

NextReregister ==
    \/ \E op \in ReregisterOps : Configure(op, MaxRegs)
    \/ GetInjector(1)
    \/ \E i \in 1..MaxInjectors : InjectCall(i, "Database", FALSE, MaxCalls)

SpecReregister == Init /\ [][NextReregister]_vars

\* a new Config that received only the calls of script, and one injector
FreshInjector(script) ==
    LET st0 == [heap |-> << >>,
                scopeObjs |-> << [kind |-> "SingletonScope", instances |-> EmptyDict] >>,
                configs |-> << EmptyConfig >>, injectors |-> << >>,
                gss |-> EmptyDict, gsr |-> EmptyDict, locked |-> FALSE, rev |-> FALSE]
    IN  [RunConfigure(st0, 1, script) EXCEPT !.injectors = << NewInjectorRec(1) >>]

\* what two calls tell their caller: exception or class of each result, and
\* whether both returned the same object
Outcome(h, e1, v1, e2, v2) ==
    [e1 |-> e1, c1 |-> IF e1 = "none" THEN h[v1].cls ELSE "",
     e2 |-> e2, c2 |-> IF e2 = "none" THEN h[v2].cls ELSE "",
     same |-> e1 = "none" /\ e2 = "none" /\ v1 = v2]

SecondInject(r1, r2) == Outcome(r2.st.heap, r1.err, r1.v, r2.err, r2.v)

FirstInject(r1) == SecondInject(r1, Inject(r1.st, 1, "Database", EmptyDict, MaxDepth))

\* two calls inject(Database) on the injector of the state st
TwoInjects(st) == FirstInject(Inject(st, 1, "Database", EmptyDict, MaxDepth))

\* C12: on a Config that registered Database several times, two calls of
\* inject(Database) have the outcome they have on a Config that received
\* only the last of these registrations.
C12_ReregistrationReplaces ==
    (/\ Len(log) = 2 /\ log[1].op = "inject" /\ log[2].op = "inject"
     /\ log[1].inj = log[2].inj
     /\ Len(ScriptOf(log[1].inj)) >= 2)
    => LET script == ScriptOf(log[1].inj)
       IN  Outcome(heap, log[1].err, log[1].v, log[2].err, log[2].v)
               = TwoInjects(FreshInjector(<< script[Len(script)] >>))

(***************************************************************************)
(* Equality and hash of keys: Key.__eq__, Key.__hash__ and the qualifier   *)
(* Named.  A qualifier is None or an instance of Named.                    *)
(***************************************************************************)
MaxCompares == 1

NoQualifier == [cls |-> "NoneType", name |-> ""]

Named(name) == [cls |-> "Named", name |-> name]

KeyQualifiers == {NoQualifier} \cup {Named(q) : q \in Qualifiers}

KeyTypes == {"object", "type", "Database", "PostgreSQL"}

\* Named.__eq__(self, other)
Named__eq__(self, other) == other.cls = "Named" /\ self.name = other.name

\* Named.__hash__: the hash of the tuple ("Named", name)
Named__hash__(self) == << "Named", self.name >>

\* a == b for two qualifiers: None compares by identity and otherwise
\* leaves the comparison to the other operand
QualifierEq(a, b) ==
    IF a.cls = "NoneType"
    THEN (IF b.cls = "NoneType" THEN TRUE ELSE Named__eq__(b, a))
    ELSE Named__eq__(a, b)

QualifierHash(a) == IF a.cls = "NoneType" THEN << "None" >> ELSE Named__hash__(a)

\* an equality that looks at the type only
Key__eq__TypeOnly(self, other) == self.type = other.type

\* Key.__eq__(self, other) for another Key
Key__eq__(self, other) ==
    self.type = other.type /\ QualifierEq(self.qualifier, other.qualifier)

\* Key.__hash__: the hash of the tuple (type, qualifier)
Key__hash__(self) == << self.type, QualifierHash(self.qualifier) >>

\* the record of a comparison: the arguments of the two constructors and
\* what constructing, comparing and hashing the two keys gave
Comparison(args, k1, k2) ==
    IF k1.err # "none"
    THEN [args |-> args, err |-> k1.err, k1 |-> 0, k2 |-> 0, eq |-> FALSE, h1 |-> 0, h2 |-> 0]
    ELSE IF k2.err # "none"
    THEN [args |-> args, err |-> k2.err, k1 |-> 0, k2 |-> 0, eq |-> FALSE, h1 |-> 0, h2 |-> 0]
    ELSE [args |-> args, err |-> "none", k1 |-> k1.v, k2 |-> k2.v,
          eq |-> Key__eq__(k1.v, k2.v),
          h1 |-> Key__hash__(k1.v), h2 |-> Key__hash__(k2.v)]

\* k1 = Key(t1, q1); k2 = Key(t2, q2); k1 == k2; hash(k1); hash(k2)
CompareKeys(t1, q1, t2, q2) ==
    /\ Len(log) < MaxCompares
    /\ log' = Append(log, Comparison(<< t1, q1, t2, q2 >>, KeyInit(t1, q1), KeyInit(t2, q2)))
    /\ UNCHANGED <<heap, scopeObjs, configs, injectors, gss, gsr, pc>>

NextKeyEq ==
    \E t1, t2 \in KeyTypes, q1, q2 \in KeyQualifiers : CompareKeys(t1, q1, t2, q2)

SpecKeyEq == Init /\ [][NextKeyEq]_vars

\* C13: two keys are equal exactly when their types are the same and their
\* qualifiers are the same, equal keys have equal hashes, and two keys of
\* one type with different qualifiers are never equal.
C13_KeyEqualityComposes ==
    \A n \in 1..Len(log) :
        log[n].err = "none"
        => /\ log[n].eq <=> (/\ log[n].k1.type = log[n].k2.type
                              /\ log[n].k1.qualifier = log[n].k2.qualifier)
           /\ log[n].eq => log[n].h1 = log[n].h2
           /\ (/\ log[n].k1.type = log[n].k2.type
               /\ log[n].k1.qualifier # log[n].k2.qualifier) => ~log[n].eq

\* Key(object, Named("a")) and Key(object, Named("b")) were compared
C13_Witness ==
    \E n \in 1..Len(log) :
        /\ log[n].err = "none"
        /\ log[n].k1 = Key("object", Named("a"))
        /\ log[n].k2 = Key("object", Named("b"))
        /\ ~log[n].eq

(***************************************************************************)
(* The scopes used directly: x = scope.scope(key, provider), then x.get()  *)
(* as the Injector does, or x() for the function a singleton scope         *)
(* returns.  The provider is FactoryProvider(cls); FactoryProvider of the  *)
(* abstract class Database raises TypeError.  In the entries of the log    *)
(* the field inj holds the scope object.                                   *)
(***************************************************************************)
MaxScopes == 3

ScopeKinds == {"NoScope", "SingletonScope", "GlobalSingletonScope"}

\* NoScope(), SingletonScope() or GlobalSingletonScope()
CreateScope(kind) ==
    /\ Len(scopeObjs) < MaxScopes
    /\ scopeObjs' = Append(scopeObjs, [kind |-> kind, instances |-> EmptyDict])
    /\ UNCHANGED <<heap, configs, injectors, gss, gsr, log, pc>>

\* scope.scope(cls, FactoryProvider(cls)).get()
ScopeGet(scope, cls) ==
    /\ scope \in 1..Len(scopeObjs)
    /\ Len(log) < MaxCalls
    /\ Returns("scope_get", scope, cls, scopeObjs[scope].kind,
               CallGet(St, ScopeScope(St, scope, cls, FactoryProvider(cls)), MaxDepth))
    /\ UNCHANGED pc

\* x(): a provider object is not callable, a function runs its body
CallFunction(st, x, d) ==
    IF x.k = "function" THEN ScopedProvider(st, x, d) ELSE R(st, "TypeError", 0)

\* scope.scope(cls, FactoryProvider(cls))()
ScopeCall(scope, cls) ==
    /\ scope \in 1..Len(scopeObjs)
    /\ Len(log) < MaxCalls
    /\ Returns("scope_call", scope, cls, scopeObjs[scope].kind,
               CallFunction(St, ScopeScope(St, scope, cls, FactoryProvider(cls)), MaxDepth))
    /\ UNCHANGED pc

NextScope ==
    \/ \E kind \in ScopeKinds : CreateScope(kind)
    \/ \E scope \in 1..MaxScopes, cls \in {"Database", "PostgreSQL"} : ScopeGet(scope, cls)
    \/ \E scope \in 1..MaxScopes, cls \in {"Database", "PostgreSQL"} : ScopeCall(scope, cls)

SpecScope == Init /\ [][NextScope]_vars

\* C14: when the wrapped provider raises, every get() of the provider that
\* a SingletonScope or GlobalSingletonScope returned raises the wrapped
\* provider's exception (the first get() and, the provider being invoked
\* again with the lock released, every later one), and nothing is stored
\* for the key.
C14_ScopeDoesNotCacheFailure ==
    /\ \A n \in 1..Len(log) :
           (/\ log[n].op = "scope_get" /\ log[n].type = "Database"
            /\ log[n].qual \in {"SingletonScope", "GlobalSingletonScope"})
           => log[n].err = "TypeError"
    /\ \A s \in 1..Len(scopeObjs) : ~Has(scopeObjs[s].instances, "Database")
    /\ ~Has(gss, "Database")

(***************************************************************************)
(* ReflectionConfig: discovery of the implementations of an interface in a *)
(* package.  A string is the sequence of its characters, so that the       *)
(* f-strings, startswith and the slices of the code are computed as the    *)
(* code computes them.  The scanned tree is                                *)
(*     p/__init__.py   p/a.py   p/b.py   p/s/__init__.py   p/s/a.py        *)
(* A class object is its __module__, its __name__ and its bases; pkg is    *)
(* the source text of the tree: the classes each module declares and the   *)
(* import statements (into, name, obj) of the modules.                     *)
(***************************************************************************)
MaxDiscoveries == 1

\* f"{a}.{b}"
Dotted(a, b) == a \o << "." >> \o b

startswith(s, prefix) ==
    /\ Len(s) >= Len(prefix)
    /\ SubSeq(s, 1, Len(prefix)) = prefix

\* s[n:]
SliceFrom(s, n) == SubSeq(s, n + 1, Len(s))

RootPackage == << "p" >>

ModA == Dotted(RootPackage, << "a" >>)

ModB == Dotted(RootPackage, << "b" >>)

PkgS == Dotted(RootPackage, << "s" >>)

ModSA == Dotted(PkgS, << "a" >>)

\* the modules importlib.import_module can import
Modules == {RootPackage, ModA, ModB, PkgS, ModSA}

\* Path(package.__file__).parent: a package's own directory, a plain
\* module's containing directory
package_dir(package_path) == IF package_path \in {PkgS, ModSA} THEN "p/s" ELSE "p"

\* package_dir.glob("*.py") without __init__.py, then the subdirectories
\* that hold an __init__.py
DirectoryEntries(dir) ==
    IF dir = "p" THEN << << "a" >>, << "b" >>, << "s" >> >> ELSE << << "a" >> >>

ServiceInterface == [k |-> "class", module |-> << "i" >>, name |-> << "S" >>, bases |-> {}]

\* class <name>(Service) in the module <module>
ImplClass(module, name) ==
    [k |-> "class", module |-> module, name |-> name, bases |-> {ServiceInterface.name}]

\* a module-level function and a class that does not derive from Service
HelperFunction(module) == [k |-> "function", module |-> module, name |-> << "f" >>, bases |-> {}]

PlainClass(module) == [k |-> "class", module |-> module, name |-> << "N" >>, bases |-> {}]

\* inspect.getmembers(module): what the module declares, what it imports
\* (the interface among it) and a function
getmembers(pkg, module) ==
    {[name |-> c.name, obj |-> c] : c \in {x \in pkg.declares : x.module = module}}
    \cup {[name |-> i.name, obj |-> i.obj] : i \in {x \in pkg.imports : x.into = module}}
    \cup {[name |-> ServiceInterface.name, obj |-> ServiceInterface],
          [name |-> << "f" >>, obj |-> HelperFunction(module)],
          [name |-> << "N" >>, obj |-> PlainClass(module)]}

issubclass_of(obj, interface) == obj = interface \/ interface.name \in obj.bases

RECURSIVE fnmatch(_, _)
\* fnmatch.fnmatch(name, pattern) with the wildcards * and ?
fnmatch(name, pattern) ==
    IF pattern = << >> THEN name = << >>
    ELSE IF Head(pattern) = "*"
    THEN IF fnmatch(name, Tail(pattern)) THEN TRUE
         ELSE IF name = << >> THEN FALSE ELSE fnmatch(Tail(name), pattern)
    ELSE IF name = << >> THEN FALSE
    ELSE IF Head(pattern) \in {"?", Head(name)} THEN fnmatch(Tail(name), Tail(pattern))
    ELSE FALSE

matches_pattern(name, pattern) == fnmatch(name, pattern)

NoPattern == << >>

\* the fallback branch of _is_in_module alone: any class of the registered
\* package or, in a recursive scan, of one of its submodules
is_in_module_Registered(obj, current_module_path, reg) ==
    \/ obj.module = reg.package
    \/ reg.recursive /\ startswith(obj.module, reg.package \o << "." >>)

\* ReflectionConfig._is_in_module; every caller passes current_module_path
is_in_module(obj, current_module_path, reg) ==
    obj.module = current_module_path

\* ReflectionConfig._is_implementation
is_implementation(obj, reg, current_module_path) ==
    IF obj.k # "class" THEN FALSE
    ELSE IF ~issubclass_of(obj, ServiceInterface) \/ obj = ServiceInterface THEN FALSE
    ELSE IF reg.pattern # NoPattern /\ ~matches_pattern(obj.name, reg.pattern) THEN FALSE
    ELSE is_in_module(obj, current_module_path, reg)

\* the naming of _scan_submodules_recursive by the submodule's own name
relative_path_SubmoduleName(full_submodule_path, root_package_path, submodule_name) ==
    submodule_name

\* the path of a submodule relative to the root package
relative_path(full_submodule_path, root_package_path, submodule_name) ==
    IF startswith(full_submodule_path, root_package_path)
    THEN SliceFrom(full_submodule_path, Len(root_package_path) + 1)
    ELSE submodule_name

\* f"{relative_path}.{name}" if relative_path else name
full_name(relative, name) == IF relative # << >> THEN Dotted(relative, name) ELSE name

RECURSIVE ScanMembers(_, _, _, _, _)
\* for name, obj in inspect.getmembers(module):
\*     if self._is_implementation(...): implementations[full_name] = obj
ScanMembers(members, reg, module_path, relative, implementations) ==
    IF members = {} THEN implementations
    ELSE LET m == CHOOSE x \in members : TRUE
         IN  ScanMembers(members \ {m}, reg, module_path, relative,
                 IF is_implementation(m.obj, reg, module_path)
                 THEN Put(implementations, full_name(relative, m.name), m.obj)
                 ELSE implementations)

\* ReflectionConfig._get_submodules: the entries of the directory that
\* import_module imports as package_path.<entry>
get_submodules(package_path) ==
    SelectSeq(DirectoryEntries(package_dir(package_path)),
              LAMBDA entry : Dotted(package_path, entry) \in Modules)

RECURSIVE scan_submodules_recursive(_, _, _, _, _, _)
\* ReflectionConfig._scan_submodules_recursive, from submodule n on
scan_submodules_recursive(pkg, package_path, reg, implementations, submodules, n) ==
    IF n > Len(submodules) THEN implementations
    ELSE scan_submodules_recursive(pkg, package_path, reg,
             scan_submodules_recursive(pkg, Dotted(package_path, submodules[n]), reg,
                 ScanMembers(getmembers(pkg, Dotted(package_path, submodules[n])), reg,
                             Dotted(package_path, submodules[n]),
                             relative_path(Dotted(package_path, submodules[n]),
                                           reg.package, submodules[n]),
                             implementations),
                 get_submodules(Dotted(package_path, submodules[n])), 1),
             submodules, n + 1)

\* ReflectionConfig.discover_implementations of a registered interface
discover_implementations(pkg, reg) ==
    IF reg.package \notin Modules THEN Raise("ImportError")
    ELSE IF reg.recursive
    THEN Ok(scan_submodules_recursive(pkg, reg.package, reg,
                ScanMembers(getmembers(pkg, reg.package), reg, reg.package, << >>, EmptyDict),
                get_submodules(reg.package), 1))
    ELSE Ok(ScanMembers(getmembers(pkg, reg.package), reg, reg.package, << >>, EmptyDict))

\* the classes the modules of the tree may declare
Declarable ==
    {ImplClass(RootPackage, << "X" >>), ImplClass(ModA, << "X" >>),
     ImplClass(ModSA, << "X" >>), ImplClass(ModB, << "Y" >>)}

\* from <obj.module> import <obj.name> [as <name>], written in <into>
ImportStatements(declares) ==
    {i \in [into : {RootPackage, ModB}, name : {<< "X" >>, << "Z" >>}, obj : declares] :
        /\ i.obj.module # i.into
        /\ \A c \in declares : c.module = i.into => c.name # i.name}

\* a tree: what its modules declare, and at most one import statement
Packages ==
    UNION {{[declares |-> d, imports |-> im] :
                im \in {{}} \cup {{i} : i \in ImportStatements(d)}} :
           d \in SUBSET Declarable}

ModuleRegistrations ==
    [package : {RootPackage}, pattern : {NoPattern, << "X", "*" >>}, recursive : BOOLEAN]

\* config.register_module(Service, package, pattern, recursive);
\* config.discover_implementations(Service)
Discover(pkg, reg) ==
    /\ Len(log) < MaxDiscoveries
    /\ log' = Append(log, [op |-> "discover", pkg |-> pkg, reg |-> reg,
                           err |-> discover_implementations(pkg, reg).err,
                           v |-> discover_implementations(pkg, reg).v])
    /\ UNCHANGED <<heap, scopeObjs, configs, injectors, gss, gsr, pc>>

NextReflect == \E pkg \in Packages, reg \in ModuleRegistrations : Discover(pkg, reg)

SpecReflect == Init /\ [][NextReflect]_vars

\* the modules a registration scans
Scanned(reg) ==
    IF reg.recursive
    THEN {m \in Modules : m = reg.package \/ startswith(m, reg.package \o << "." >>)}
    ELSE {reg.package}

\* the keys under which a map holds a class
KeysOf(d, obj) == {key \in DOMAIN d : d[key] = obj}

\* the key of a name bound in a module: the module's path below the root
\* package, a dot, and the name
KeyUnder(reg, module, name) ==
    IF module = reg.package THEN name
    ELSE Dotted(SliceFrom(module, Len(reg.package) + 1), name)

Discoverable(reg, obj) ==
    /\ obj.module \in Scanned(reg)
    /\ reg.pattern # NoPattern => fnmatch(obj.name, reg.pattern)

\* C15: a class that another module of the scanned package imports is
\* discovered exactly once, under the key of the module that declares it,
\* and never under the key of the importing module.
C15_ReExportedClassOnce ==
    \A n \in 1..Len(log) :
        (log[n].op = "discover" /\ log[n].err = "none")
        => \A i \in log[n].pkg.imports :
               /\ KeysOf(log[n].v, i.obj)
                      = IF Discoverable(log[n].reg, i.obj)
                        THEN {KeyUnder(log[n].reg, i.obj.module, i.obj.name)}
                        ELSE {}
               /\ KeyUnder(log[n].reg, i.into, i.name) \notin KeysOf(log[n].v, i.obj)

\* p/a.py declares X, p/b.py imports it as Z, and the recursive scan of p
\* holds X under a.X alone
C15_Witness ==
    \E n \in 1..Len(log) :
        /\ log[n].op = "discover" /\ log[n].err = "none" /\ log[n].reg.recursive
        /\ [into |-> ModB, name |-> << "Z" >>, obj |-> ImplClass(ModA, << "X" >>)]
               \in log[n].pkg.imports
        /\ KeysOf(log[n].v, ImplClass(ModA, << "X" >>)) = {<< "a", ".", "X" >>}

\* C16: in a recursive scan every implementation declared in a submodule
\* is held under its module path relative to the root package, a dot and
\* the class name, so that same-named classes of different submodules are
\* two entries of the map.
C16_SubmoduleKeysDistinct ==
    \A n \in 1..Len(log) :
        (log[n].op = "discover" /\ log[n].err = "none" /\ log[n].reg.recursive)
        => \A c1, c2 \in log[n].pkg.declares :
               (/\ c1.module # log[n].reg.package /\ Discoverable(log[n].reg, c1)
                /\ c2.module # log[n].reg.package /\ Discoverable(log[n].reg, c2))
               => /\ Has(log[n].v, KeyUnder(log[n].reg, c1.module, c1.name))
                  /\ log[n].v[KeyUnder(log[n].reg, c1.module, c1.name)] = c1
                  /\ c1 # c2 => KeysOf(log[n].v, c1) \cap KeysOf(log[n].v, c2) = {}

\* p/a.py and p/s/a.py both declare X: the map holds a.X and s.a.X
C16_Witness ==
    \E n \in 1..Len(log) :
        /\ log[n].op = "discover" /\ log[n].err = "none" /\ log[n].reg.recursive
        /\ {ImplClass(ModA, << "X" >>), ImplClass(ModSA, << "X" >>)} \subseteq log[n].pkg.declares
        /\ Has(log[n].v, << "a", ".", "X" >>)
        /\ Has(log[n].v, << "s", ".", "a", ".", "X" >>)
        /\ log[n].v[<< "a", ".", "X" >>] # log[n].v[<< "s", ".", "a", ".", "X" >>]

(***************************************************************************)
(* ReflectionConfig objects.  A Config record with the field               *)
(* module_registrations is a ReflectionConfig whose __init__ has assigned  *)
(* self._module_registrations; while Config.__init__ runs configure() the  *)
(* attribute does not exist yet.  The scanned tree is ExamplePackage.      *)
(***************************************************************************)
MaxReflectCalls == 3

ExamplePackage ==
    [declares |-> {ImplClass(RootPackage, << "X" >>), ImplClass(ModA, << "X" >>),
                   ImplClass(ModB, << "Y" >>)},
     imports |-> {[into |-> RootPackage, name |-> << "Z" >>, obj |-> ImplClass(ModB, << "Y" >>)]}]

hasattr(obj, name) == name \in DOMAIN obj

\* self._module_registrations = regs
SetModuleRegistrations(cfg, regs) ==
    [registrations |-> cfg.registrations, instances |-> cfg.instances,
     singleton_types |-> cfg.singleton_types, scopes |-> cfg.scopes,
     providers |-> cfg.providers, qualified_bindings |-> cfg.qualified_bindings,
     multibindings |-> cfg.multibindings, script |-> cfg.script,
     module_registrations |-> regs]

\* config.discover_implementations(Service)
DiscoverImplementationsOf(cfg) ==
    IF ~hasattr(cfg, "module_registrations") THEN Raise("AttributeError")
    ELSE IF ~Has(cfg.module_registrations, ServiceInterface) THEN Ok(EmptyDict)
    ELSE discover_implementations(ExamplePackage, cfg.module_registrations[ServiceInterface])

\* the orders in which the items of the discovered map can come: the members
\* of the root module first, the submodules in the order of the directory
\* listing, which the file system decides
IterationOrders(implementations) ==
    {order \in [1..Cardinality(DOMAIN implementations) -> DOMAIN implementations] :
        /\ \A a, b \in DOMAIN order : a # b => order[a] # order[b]
        /\ \A a, b \in DOMAIN order :
               ("." \in Range(order[a]) /\ "." \notin Range(order[b])) => b < a}

RECURSIVE RegisterDiscovered(_, _, _, _, _, _)
\* for name, impl_class in implementations.items():
\*     self.register(interface, impl_class, singleton_type=singleton_type)
RegisterDiscovered(st, c, implementations, order, n, singleton_type) ==
    IF n > Len(order) THEN R(st, "none", 0)
    ELSE With(Register(st, c, ServiceInterface, TypeConcrete(implementations[order[n]]),
                       FALSE, singleton_type, None, NoProvider),
              LAMBDA r : IF r.err # "none" THEN r
                         ELSE RegisterDiscovered(r.st, c, implementations, order,
                                                 n + 1, singleton_type))

\* the position at which the items of the map end when they come in the
\* order the action chose; a map of another size keeps the order of its keys
OrderFor(implementations, order) ==
    IF order \in IterationOrders(implementations) THEN order
    ELSE CHOOSE o \in IterationOrders(implementations) : TRUE

\* ReflectionConfig._discover_and_register
discover_and_register(st, c, reg, order) ==
    IF DiscoverImplementationsOf(st.configs[c]).err # "none"
    THEN R(st, DiscoverImplementationsOf(st.configs[c]).err, 0)
    ELSE RegisterDiscovered(st, c, DiscoverImplementationsOf(st.configs[c]).v,
                            OrderFor(DiscoverImplementationsOf(st.configs[c]).v, order),
                            1, reg.singleton_type)

\* ReflectionConfig.register_module(Service, ...)
register_module(st, c, reg, order) ==
    IF ~hasattr(st.configs[c], "module_registrations") THEN R(st, "AttributeError", 0)
    ELSE discover_and_register(
             SetConfig(st, c, SetModuleRegistrations(st.configs[c],
                 Put(st.configs[c].module_registrations, ServiceInterface, reg))),
             c, reg, order)

\* the configure() of a subclass: a sequence of register_module calls
RECURSIVE ReflectionConfigure(_, _, _, _, _)
ReflectionConfigure(st, c, configure, n, order) ==
    IF n > Len(configure) THEN R(st, "none", 0)
    ELSE With(register_module(st, c, configure[n], order),
              LAMBDA r : IF r.err # "none" THEN r
                         ELSE ReflectionConfigure(r.st, c, configure, n + 1, order))

\* ReflectionConfig.__init__: Config.__init__, which ends with configure(),
\* and then the assignment of an empty _module_registrations.  An exception
\* leaves the constructor and no object exists.
ReflectionConfigInit(st, configure, order) ==
    With(ReflectionConfigure([st EXCEPT !.configs = Append(@, EmptyConfig)],
                             Len(st.configs) + 1, configure, 1, order),
         LAMBDA r : IF r.err # "none" THEN R(st, r.err, 0)
                    ELSE R(SetConfig(r.st, Len(st.configs) + 1,
                               SetModuleRegistrations(r.st.configs[Len(st.configs) + 1],
                                                      EmptyDict)),
                           "none", Len(st.configs) + 1))

\* Injector.inject_by_name(Service, name)
inject_by_name(st, i, name) ==
    IF ~hasattr(CfgOf(st, i), "module_registrations") THEN R(st, "ValueError", 0)
    ELSE IF DiscoverImplementationsOf(CfgOf(st, i)).err # "none"
    THEN R(st, DiscoverImplementationsOf(CfgOf(st, i)).err, 0)
    ELSE IF ~Has(DiscoverImplementationsOf(CfgOf(st, i)).v, name) THEN R(st, "ValueError", 0)
    ELSE R(st, "none", DiscoverImplementationsOf(CfgOf(st, i)).v[name])

ReflectionRegistrations ==
    [package : {RootPackage, << "q" >>}, pattern : {NoPattern}, recursive : BOOLEAN,
     singleton_type : {"NONE", "SINGLETON"}]

\* the orders of the largest map the tree gives
ExampleOrders ==
    IterationOrders(discover_implementations(ExamplePackage,
        [package |-> RootPackage, pattern |-> NoPattern, recursive |-> TRUE]).v)

\* config = ReflectionConfig(), or a subclass whose configure() calls
\* register_module
NewReflectionConfig(configure, order) ==
    /\ Len(configs) < MaxConfigs
    /\ Len(log) < MaxReflectCalls
    /\ Returns("construct", Len(configs) + 1, configure, "",
               ReflectionConfigInit(St, configure, order))
    /\ UNCHANGED pc

\* config.register_module(Service, ...) after the construction
RegisterModuleCall(c, reg, order) ==
    /\ c \in 1..Len(configs)
    /\ hasattr(configs[c], "module_registrations")
    /\ ~Sealed(c)
    /\ Len(log) < MaxReflectCalls
    /\ Returns("register_module", c, << reg >>, "", register_module(St, c, reg, order))
    /\ UNCHANGED pc

InjectByNameCall(i, name) ==
    /\ i \in 1..Len(injectors)
    /\ Len(log) < MaxReflectCalls
    /\ Returns("inject_by_name", i, << >>, name, inject_by_name(St, i, name))
    /\ UNCHANGED pc

NextReflectConfig ==
    \/ NewReflectionConfig(<< >>, << >>)
    \/ \E reg \in ReflectionRegistrations, order \in ExampleOrders :
           NewReflectionConfig(<< reg >>, order)
    \/ \E c \in 1..MaxConfigs, reg \in ReflectionRegistrations, order \in ExampleOrders :
           RegisterModuleCall(c, reg, order)
    \/ \E c \in 1..MaxConfigs : GetInjector(c)
    \/ \E i \in 1..MaxInjectors, name \in {<< "X" >>, << "a", ".", "X" >>, << "Z" >>} :
           InjectByNameCall(i, name)

SpecReflectConfig == Init /\ [][NextReflectConfig]_vars

\* C17: the construction of a ReflectionConfig subclass whose configure()
\* calls register_module succeeds, and the Config it returns holds the
\* module registration and the binding of a discovered implementation.
C17_RegisterModuleInConfigure ==
    \A n \in 1..Len(log) :
        (log[n].op = "construct" /\ log[n].type # << >>
         /\ log[n].type[1].package = RootPackage)
        => /\ log[n].err = "none"
           /\ Has(configs[log[n].v].module_registrations, ServiceInterface)
           /\ DiscoverImplementationsOf(configs[log[n].v]).v # EmptyDict
           /\ get_registration(configs[log[n].v], ServiceInterface) # NoConcrete

\* what the lookup accessors of a Config return for every class and key
LookupResults(cfg) ==
    [registration |-> [T \in Types |-> get_registration(cfg, T)],
     instance |-> [T \in Types |-> get_instance(cfg, T)],
     scope |-> [T \in Types |-> get_scope(cfg, T)],
     provider |-> [T \in Types |-> get_provider(cfg, T)],
     multibinding |-> [T \in Types |-> get_multibinding(cfg, T)],
     key_binding |-> [key \in {Key(T, q) : T \in Types, q \in Qualifiers} |->
                         get_key_binding(cfg, key)]]

\* the step is the return of an inject call
InjectReturns ==
    /\ Len(log') = Len(log) + 1
    /\ log'[Len(log')].op = "inject"

\* C18: a step in which an inject call returns leaves the result of every
\* lookup accessor of every Config as it was.
C18_InjectLeavesConfig ==
    [][InjectReturns => \A c \in 1..Len(configs) :
                            LookupResults(configs'[c]) = LookupResults(configs[c])]_vars

\* C19: for each built-in scope, get() on what scope(key, provider) returns
\* does not fail when the wrapped provider does not: it returns an instance
\* of the class, and a singleton scope returns one and the same instance.
C19_ScopedProviderHasGet ==
    /\ \A n \in 1..Len(log) :
           (log[n].op = "scope_get" /\ log[n].type = "PostgreSQL")
           => /\ log[n].err = "none"
              /\ log[n].v.k = "obj"
              /\ heap[log[n].v.o].cls = "PostgreSQL"
    /\ \A n, k \in 1..Len(log) :
           (/\ log[n].op = "scope_get" /\ log[k].op = "scope_get"
            /\ log[n].type = "PostgreSQL" /\ log[k].type = "PostgreSQL"
            /\ log[n].inj = log[k].inj /\ log[n].qual = "SingletonScope")
           => log[n].v = log[k].v

(***************************************************************************)
(* Multibindings with an element that cannot be injected: the abstract     *)
(* class Handler itself is registered as an implementation, and calling it *)
(* raises TypeError.                                                       *)
(***************************************************************************)
ElementFailsOps ==
    {OpRegisterMultibinding("Handler", impl, as_set) :
        impl \in {"HandlerA", "Handler"}, as_set \in BOOLEAN}

NextElementFails ==
    \/ \E op \in ElementFailsOps : Configure(op, MaxMultiRegs)
    \/ GetInjector(1)
    \/ \E i \in 1..MaxInjectors : InjectCall(i, "Dispatcher", FALSE, MaxMultiCalls)
    \/ \E i \in 1..MaxInjectors, rev \in BOOLEAN : InjectCall(i, "Registry", rev, MaxMultiCalls)

SpecElementFails == Init /\ [][NextElementFails]_vars

\* C20: an inject call whose multibinding holds an element that cannot be
\* injected fails: the element's failure reaches the caller, and no
\* Dispatcher or Registry is returned with the element left out.
C20_ElementFailurePropagates ==
    \A n \in 1..Len(log) :
        (/\ log[n].op = "inject"
         /\ \/ /\ log[n].type = "Dispatcher"
               /\ Range(Registered(ScriptOf(log[n].inj), "Handler", FALSE))
                      \cap AbstractTypes # {}
            \/ /\ log[n].type = "Registry"
               /\ Range(Registered(ScriptOf(log[n].inj), "Handler", TRUE))
                      \cap AbstractTypes # {})
        => log[n].err # "none"

(***************************************************************************)
(* Bindings that depend on themselves: Node requires a Node, Ping requires *)
(* a Pong and Pong an Optional[Ping].  MaxDepth stands for the recursion   *)
(* limit of the interpreter.                                               *)
(***************************************************************************)
CycleOps ==
    {OpRegister(T, T, "type", FALSE, "NONE", "None", "None") : T \in {"Node", "Ping", "Pong"}}
    \cup {OpRegister("Database", "PostgreSQL", "type", FALSE, "NONE", "None", "None")}

NextCycle ==
    \/ \E op \in CycleOps : Configure(op, MaxRegs)
    \/ GetInjector(1)
    \/ \E i \in 1..MaxInjectors, cls \in {"Node", "Ping", "Pong", "Database"} :
           InjectCall(i, cls, FALSE, MaxMultiCalls)

SpecCycle == Init /\ [][NextCycle]_vars

\* the registered types that the constructor of T's binding asks the
\* injector for
Requires(script, T) ==
    {Params(T)[n].type : n \in 1..Len(Params(T))}
    \cap {script[k].abstract : k \in 1..Len(script)}

DependsOnItself(script, T) ==
    LET step(S) == S \cup UNION {Requires(script, x) : x \in S}
    IN  /\ \E k \in 1..Len(script) : script[k].abstract = T
        /\ T \in step(step(step(Requires(script, T))))

GlobalScopeCalls(op, cls) ==
    {n \in 1..Len(log) : /\ log[n].op = op /\ log[n].type = cls
                         /\ log[n].qual = "GlobalSingletonScope"}

\* C22: the get() calls on the providers that GlobalSingletonScope objects
\* return for one key, in whatever order the class-level lock admits them,
\* all return one and the same instance, the wrapped provider having been
\* invoked once, whichever GlobalSingletonScope object each call went to.
C22_GlobalScopeCreatesOnce ==
    /\ \A n \in GlobalScopeCalls("scope_get", "PostgreSQL") :
           /\ log[n].err = "none"
           /\ \A k \in GlobalScopeCalls("scope_get", "PostgreSQL") : log[k].v = log[n].v
    /\ GlobalScopeCalls("scope_get", "PostgreSQL") # {} => Has(gss, "PostgreSQL")

\* the same for the returned function called directly, x() in place of
\* x.get()
GlobalScopeFunctionCreatesOnce ==
    \A n, k \in GlobalScopeCalls("scope_call", "PostgreSQL") :
        log[n].err = "none" /\ log[k].v = log[n].v

\* register(T, Impl, singleton_type=GLOBAL_SINGLETON, scope=NoScope()): the
\* binding that inject resolves through the GlobalSingletonRegistry
IsLegacyGlobalRegistration(op) ==
    /\ op.op = "register" /\ op.ckind = "type" /\ op.provSel = "None" /\ ~op.singleton
    /\ op.scopeSel = "NoScope" /\ op.singleton_type = "GLOBAL_SINGLETON"

\* C23: when Database is bound as a global singleton of the legacy
\* registry, the inject(Database) calls of all threads and injectors return
\* one and the same instance, and one PostgreSQL has been constructed.
C23_RegistryCreatesOnce ==
    (\A c \in 1..Len(configs) :
         Len(configs[c].script) = 1 /\ IsLegacyGlobalRegistration(configs[c].script[1]))
    => /\ \A m, n \in 1..Len(log) :
              (log[m].op = "inject" /\ log[n].op = "inject")
              => /\ log[m].err = "none"
                 /\ log[m].v = log[n].v
       /\ Cardinality({o \in 1..Len(heap) : heap[o].cls = "PostgreSQL"}) <= 1

(***************************************************************************)
(* The per-injector singleton cache under threads.  inject holds no lock,  *)
(* so a thread can be suspended after the cache checks (injector.py        *)
(* 118-125), after the choice of the branch (127-140) and while            *)
(* _instantiate runs.                                                      *)
(***************************************************************************)
\* inject(cls) on the injector i gets past the checks of the caches
SingletonMissing(i, cls) ==
    LET cfg == configs[injectors[i].config]
        scope == get_scope(cfg, cls)
    IN  /\ get_provider(cfg, cls).k = "none"
        /\ (IF scope = None THEN TRUE ELSE scopeObjs[scope].kind = "NoScope")
        /\ get_singleton_type(cfg, cls) # "GLOBAL_SINGLETON"
        /\ get_instance(cfg, cls) = None
        /\ ~(get_singleton_type(cfg, cls) = "SINGLETON" /\ Has(injectors[i].singletons, cls))

\* thread t calls inject(cls): no registered instance, nothing cached
InjectSingletonMiss(t, i, cls) ==
    /\ pc[t].at = "idle"
    /\ i \in 1..Len(injectors)
    /\ Calls < MaxCalls
    /\ SingletonMissing(i, cls)
    /\ pc' = [pc EXCEPT ![t] = [at |-> "singleton_miss", inj |-> i, cls |-> cls]]
    /\ UNCHANGED <<heap, scopeObjs, configs, injectors, gss, gsr, log>>

\* thread t reads the registration and the placeholder of the lazy singleton
InjectSingletonBranch(t) ==
    /\ pc[t].at = "singleton_miss"
    /\ LET cfg == configs[injectors[pc[t].inj].config]
       IN  pc' = [pc EXCEPT ![t].at =
                      IF get_registration(cfg, pc[t].cls).k = "none" THEN "singleton_unregistered"
                      ELSE IF Has(cfg.instances, pc[t].cls) /\ cfg.instances[pc[t].cls] = None
                      THEN "singleton_lazy"
                      ELSE "singleton_plain"]
    /\ UNCHANGED <<heap, scopeObjs, configs, injectors, gss, gsr, log>>

\* the branch re-reads the cache before it constructs
InjectSingletonCreate_Recheck(st, i, cls, branch, d) ==
    IF Has(st.injectors[i].singletons, cls)
    THEN R(st, "none", st.injectors[i].singletons[cls])
    ELSE With(Instantiate(st, i, IF branch = "singleton_unregistered" THEN TypeConcrete(cls)
                                 ELSE get_registration(CfgOf(st, i), cls), EmptyDict, d),
              LAMBDA r :
                 IF r.err # "none" THEN r
                 ELSE R([r.st EXCEPT !.injectors[i].singletons = Put(@, cls, r.v)], "none", r.v))

\* the rest of Injector.inject in the chosen branch: _instantiate, then the
\* stores in the caches
InjectSingletonCreate(st, i, cls, branch, d) ==
    With(Instantiate(st, i, IF branch = "singleton_unregistered" THEN TypeConcrete(cls)
                            ELSE get_registration(CfgOf(st, i), cls), EmptyDict, d),
         LAMBDA r :
            IF r.err # "none" THEN r
            ELSE IF branch = "singleton_lazy"
            THEN R([r.st EXCEPT !.injectors[i].singletons = Put(@, cls, r.v),
                                !.configs[st.injectors[i].config].instances = Put(@, cls, r.v)],
                   "none", r.v)
            ELSE IF \/ get_singleton_type(CfgOf(r.st, i), cls) = "SINGLETON"
                    \/ branch = "singleton_plain" /\ Has(CfgOf(r.st, i).instances, cls)
            THEN R([r.st EXCEPT !.injectors[i].singletons = Put(@, cls, r.v)], "none", r.v)
            ELSE r)

\* thread t constructs the instance, stores it and returns it; the entry of
\* the log is marked uncached
InjectSingletonStore(t) ==
    /\ pc[t].at \in {"singleton_unregistered", "singleton_lazy", "singleton_plain"}
    /\ Returns("inject", pc[t].inj, pc[t].cls, "uncached",
               InjectSingletonCreate(St, pc[t].inj, pc[t].cls, pc[t].at, MaxDepth - 1))
    /\ pc' = [pc EXCEPT ![t] = Idle]

\* inject(cls) that ends at a cache, a scope or a provider
InjectCachedCall(i, cls) ==
    /\ i \in 1..Len(injectors)
    /\ IF SingletonMissing(i, cls) THEN FALSE ELSE InjectCall(i, cls, FALSE, MaxCalls)

RaceOps ==
    {OpRegister("Database", "PostgreSQL", "type", FALSE, "SINGLETON", sel, "None") :
        sel \in {"None", "NoScope"}}

NextRace ==
    \/ \E op \in RaceOps : Configure(op, 1)
    \/ GetInjector(1)
    \/ \E t \in Threads, i \in 1..MaxInjectors : InjectSingletonMiss(t, i, "Database")
    \/ \E t \in Threads : InjectSingletonBranch(t)
    \/ \E t \in Threads : InjectSingletonStore(t)
    \/ \E i \in 1..MaxInjectors : InjectCachedCall(i, "Database")

SpecRace == Init /\ [][NextRace]_vars

\* C24: every inject(Database) call on a SINGLETON binding that found the
\* per-injector singleton uncached constructs an instance of its own, whatever another thread has
\* stored since the check: the calls that were past the check together
\* return different objects.
C24_UncachedCallsConstruct ==
    \A m, n \in 1..Len(log) :
        (/\ log[m].op = "inject" /\ log[m].qual = "uncached"
         /\ log[n].op = "inject" /\ log[n].qual = "uncached" /\ m # n
         /\ get_singleton_type(configs[injectors[log[m].inj].config], "Database") = "SINGLETON"
         /\ get_singleton_type(configs[injectors[log[n].inj].config], "Database") = "SINGLETON")
        => /\ log[m].err = "none"
           /\ log[m].v # log[n].v

\* two threads were past the check on one injector and got two objects
C24_Witness ==
    \E m, n \in 1..Len(log) :
        /\ log[m].op = "inject" /\ log[n].op = "inject"
        /\ log[m].inj = log[n].inj
        /\ log[m].qual = "uncached" /\ log[n].qual = "uncached"
        /\ log[m].err = "none" /\ log[n].err = "none"
        /\ log[m].v # log[n].v
        /\ Cardinality({o \in 1..Len(heap) : heap[o].cls = "PostgreSQL"}) = 2

(***************************************************************************)
(* A provider bound together with a scope.                                 *)
(***************************************************************************)
\* register(T, Impl, provider=FactoryProvider(Impl), scope=SingletonScope())
IsScopedProviderRegistration(op) ==
    /\ op.op = "register"
    /\ op.provSel = "FactoryProvider"
    /\ op.scopeSel = "SingletonScope"

\* C25: on an injector whose only registration binds Database to a provider
\* in a SingletonScope, every inject(Database) succeeds and all the calls
\* return one instance, the provider having constructed one object only.
C25_ProviderGoesThroughScope ==
    \A i \in 1..Len(injectors) :
        (Len(ScriptOf(i)) = 1 /\ IsScopedProviderRegistration(ScriptOf(i)[1]))
        => \A m, n \in Injects(i, "Database") :
              /\ log[m].err = "none"
              /\ log[m].v = log[n].v

(***************************************************************************)
(* Binder.bind_key: the builder is made for key.type and the key is kept   *)
(* in an attribute that _finalize never reads.                             *)
(***************************************************************************)
BindKeyOps ==
    {OpBindKeyTo(type, qual, "PostgreSQL") : type \in {"object", "Database"}, qual \in Qualifiers}
    \cup {OpRegister(type, "MySQL", "type", FALSE, "NONE", "None", "None") :
            type \in {"object", "Database"}}

NextBindKey ==
    \/ \E op \in BindKeyOps : Configure(op, MaxRegs)
    \/ \E op \in BindKeyOps : ConfigureFails(op)
    \/ GetInjector(1)
    \/ \E i \in 1..MaxInjectors, type \in {"object", "Database"}, qual \in Qualifiers :
           InjectKeyCall(i, type, qual)
    \/ \E i \in 1..MaxInjectors, type \in {"object", "Database"} :
           InjectCall(i, type, FALSE, MaxCalls)

SpecBindKey == Init /\ [][NextBindKey]_vars

\* the unqualified registration of type that the calls register(type, ...)
\* of a configure() leave
LastRegistered(script, type) ==
    LET ks == {k \in 1..Len(script) : script[k].op = "register" /\ script[k].abstract = type}
    IN  IF ks = {} THEN NoConcrete
        ELSE TypeConcrete(script[CHOOSE k \in ks : \A j \in ks : j <= k].concrete)

\* C26: on an injector whose configure() called
\* bind_key(Key(T, q)).to(Impl), inject(Key(T, q)) returns an instance of
\* Impl, and the unqualified registration of T is the one the register(T, ...)
\* calls left (none if there was none).
C26_BindKeyBindsTheKey ==
    \A i \in 1..Len(injectors) : \A k \in 1..Len(ScriptOf(i)) :
        ScriptOf(i)[k].op = "bind_key_to"
        => /\ \A n \in 1..Len(log) :
                 (/\ log[n].op = "inject_key" /\ log[n].inj = i
                  /\ log[n].type = ScriptOf(i)[k].abstract
                  /\ log[n].qual = ScriptOf(i)[k].qual)
                 => /\ log[n].err = "none"
                    /\ heap[log[n].v].cls = ScriptOf(i)[k].concrete
           /\ get_registration(ConfigOf(i), ScriptOf(i)[k].abstract)
                 = LastRegistered(ScriptOf(i), ScriptOf(i)[k].abstract)

(***************************************************************************)
(* Several injectors over one Config object.                               *)
(***************************************************************************)
\* register(T, Impl, ...) of a class with singleton=True,
\* singleton_type=SINGLETON or scope=SingletonScope()
IsPerInjectorSingleton(op) ==
    /\ op.op = "register" /\ op.ckind = "type" /\ op.provSel = "None"
    /\ op.singleton_type # "GLOBAL_SINGLETON"
    /\ op.scopeSel # "GlobalSingletonScope"
    /\ (op.singleton \/ op.singleton_type = "SINGLETON" \/ op.scopeSel = "SingletonScope")

\* C27: when two injectors are made from one Config whose only registration
\* is a per-injector singleton, an instance that inject(Database) returns on
\* one of them is never returned on the other.
C27_InjectorsHaveOwnSingletons ==
    \A i, j \in 1..Len(injectors) :
        (/\ i # j
         /\ injectors[i].config = injectors[j].config
         /\ Len(ScriptOf(i)) = 1
         /\ IsPerInjectorSingleton(ScriptOf(i)[1]))
        => \A m \in Injects(i, "Database"), n \in Injects(j, "Database") :
              (log[m].err = "none" /\ log[n].err = "none") => log[m].v # log[n].v

(***************************************************************************)
(* GlobalSingletonScope.clear and has, with injectors whose binding is in  *)
(* a GlobalSingletonScope and with the scoped function called directly.    *)
(***************************************************************************)
MaxClearCalls == 4

\* GlobalSingletonScope.clear()
Clear ==
    /\ Len(log) < MaxClearCalls
    /\ gss' = EmptyDict
    /\ log' = Append(log, Entry("clear", 0, "", "GlobalSingletonScope", R(St, "none", 0)))
    /\ UNCHANGED <<heap, scopeObjs, configs, injectors, gsr, pc>>

\* GlobalSingletonScope.has(key): v is 1 for True and 0 for False
HasCall(key) ==
    /\ Len(log) < MaxClearCalls
    /\ log' = Append(log, Entry("has", 0, key, "GlobalSingletonScope",
                                R(St, "none", IF Has(gss, key) THEN 1 ELSE 0)))
    /\ UNCHANGED <<heap, scopeObjs, configs, injectors, gss, gsr, pc>>

\* GlobalSingletonScope().scope(cls, FactoryProvider(cls))() on a new scope
GlobalScopeCall(cls) ==
    /\ Len(log) < MaxClearCalls
    /\ Len(scopeObjs) < MaxScopes
    /\ LET st1 == NewScope(St, "GlobalSingletonScope")
           scope == Len(st1.scopeObjs)
       IN  Returns("scope_call", scope, cls, "GlobalSingletonScope",
                   CallFunction(st1, ScopeScope(st1, scope, cls, FactoryProvider(cls)), MaxDepth))
    /\ UNCHANGED pc

ClearOps ==
    {OpRegister("Database", "PostgreSQL", "type", FALSE, "NONE", "GlobalSingletonScope", "None"),
     OpRegister("Database", "PostgreSQL", "type", FALSE, "GLOBAL_SINGLETON", "None", "None")}

NextClear ==
    \/ \E op \in ClearOps : Configure(op, 1)
    \/ GetInjector(1)
    \/ \E i \in 1..MaxInjectors : InjectCall(i, "Database", FALSE, MaxClearCalls)
    \/ GlobalScopeCall("PostgreSQL")
    \/ Clear
    \/ \E key \in {"Database", "PostgreSQL"} : HasCall(key)

SpecClear == Init /\ [][NextClear]_vars

\* the last call of clear() in the log, 0 if there is none
LastClear ==
    LET ks == {n \in 1..Len(log) : log[n].op = "clear"}
    IN  IF ks = {} THEN 0 ELSE CHOOSE n \in ks : \A k \in ks : k <= n

\* C28: after GlobalSingletonScope.clear(), has(key) is False as long as
\* nothing is resolved again, and the inject(Database) calls made since the
\* clear on the injectors of a GlobalSingletonScope binding all succeed and
\* return one instance.
C28_ClearResetsAllInjectors ==
    LastClear # 0
    => /\ \A m \in (LastClear + 1)..Len(log) :
              (/\ log[m].op = "has"
               /\ \A k \in LastClear..m : log[k].op \in {"clear", "has"})
              => log[m].v = 0
       /\ \A m, n \in (LastClear + 1)..Len(log) :
              (log[m].op = "inject" /\ log[n].op = "inject")
              => /\ log[m].err = "none"
                 /\ log[m].v = log[n].v

\* what holds of clear() and has(): the global cache is empty after clear()
ClearEmptiesGlobalCache ==
    /\ \A m \in 1..Len(log) :
           (log[m].op = "has" /\ m > 1 /\ log[m - 1].op = "clear") => log[m].v = 0
    /\ \A i \in 1..Len(injectors) : \A s \in DOMAIN injectors[i].scoped_instances :
           injectors[i].scoped_instances[s] = EmptyDict

(***************************************************************************)
(* A scoped function whose wrapped provider calls a scoped function.       *)
(* GlobalSingletonScope._lock is a threading.Lock: a thread that acquires  *)
(* it while holding it waits forever, and so does every thread that        *)
(* acquires it afterwards.  A waiting thread is at "blocked" and its call  *)
(* has no record in the log.                                               *)
(***************************************************************************)
LockHeld == \E u \in Threads : pc[u].at = "blocked"

\* a call on thread t returns, raises or waits for the lock
ReturnsOrBlocks(t, op, i, type, qual, r) ==
    IF r.err = "Deadlock"
    THEN /\ pc' = [pc EXCEPT ![t] = [at |-> "blocked", inj |-> i, cls |-> type]]
         /\ UNCHANGED <<heap, scopeObjs, configs, injectors, gss, gsr, log>>
    ELSE /\ Returns(op, i, type, qual, r)
         /\ UNCHANGED pc

\* outer.scope(key, FactoryProvider(inner.scope(cls, FactoryProvider(cls))))()
NestedScopeCall(t, outer, inner, key, cls) ==
    /\ pc[t].at = "idle"
    /\ outer \in 1..Len(scopeObjs) /\ inner \in 1..Len(scopeObjs)
    /\ Calls < MaxCalls
    /\ ReturnsOrBlocks(t, "scope_call", outer, key, scopeObjs[outer].kind,
           CallFunction([St EXCEPT !.locked = LockHeld],
                        ScopeScope(St, outer, key, FactoryProviderOfScoped(inner, cls)),
                        MaxDepth))

\* inject(cls) on thread t
InjectOrBlock(t, i, cls) ==
    /\ pc[t].at = "idle"
    /\ i \in 1..Len(injectors)
    /\ Calls < MaxCalls
    /\ ReturnsOrBlocks(t, "inject", i, cls, "",
           Inject([St EXCEPT !.locked = LockHeld], i, cls, EmptyDict, MaxDepth))

NestedOps ==
    {OpRegister(T, T, "type", FALSE, "NONE", "GlobalSingletonScope", "None") :
        T \in {"Service", "PostgreSQL"}}
    \cup {OpRegister("Database", "PostgreSQL", "type", FALSE, "NONE", "GlobalSingletonScope", "None")}

NextNested ==
    \/ \E kind \in {"SingletonScope", "GlobalSingletonScope"} : CreateScope(kind)
    \/ \E op \in NestedOps : Configure(op, MaxRegs)
    \/ GetInjector(1)
    \/ \E t \in Threads, outer, inner \in 1..MaxScopes, key, cls \in {"Database", "PostgreSQL"} :
           NestedScopeCall(t, outer, inner, key, cls)
    \/ \E t \in Threads, i \in 1..MaxInjectors : InjectOrBlock(t, i, "Service")

SpecNested == Init /\ [][NextNested]_vars

\* C29: no thread waits for the lock of GlobalSingletonScope that it holds
\* itself: every resolution of a value in a GlobalSingletonScope whose
\* wrapped provider resolves a value in a GlobalSingletonScope returns or
\* raises.
C29_NestedGlobalScopeTerminates ==
    \A t \in Threads : pc[t].at # "blocked"

\* through the Injector a GlobalSingletonScope binding never takes the lock
InjectNeverTakesLock ==
    /\ \A n \in 1..Len(log) :
           (log[n].op = "inject" /\ Has(ConfigOf(log[n].inj).scopes, "Service"))
           => log[n].err = "AttributeError"
    /\ \A t \in Threads : pc[t].at = "blocked" => pc[t].cls # "Service"

(***************************************************************************)
(* Chain handlers: a handler class is registered for a handler type or     *)
(* under a name, and injected by type or by name.                          *)
(***************************************************************************)
\* the tail both methods share: the singleton type and the caches are looked
\* up under (chain_type, x), x being the handler type or the name
InjectChainInstance(st, i, chain_type, x, handler_class, d) ==
    LET singleton_type == get_chain_handler_singleton_type(CfgOf(st, i), chain_type, x)
        key == "chain:" \o chain_type \o ":" \o x
        cache_key == <<chain_type, x>>
    IN  IF singleton_type = "GLOBAL_SINGLETON"
        THEN IF Has(st.gsr, key) THEN R(st, "none", st.gsr[key])
             ELSE With(Instantiate(st, i, TypeConcrete(handler_class), EmptyDict, d),
                       LAMBDA r : IF r.err # "none" THEN r
                                  ELSE R([r.st EXCEPT !.gsr = Put(@, key, r.v)], "none", r.v))
        ELSE IF singleton_type = "SINGLETON" /\ Has(st.injectors[i].chain_singletons, cache_key)
        THEN R(st, "none", st.injectors[i].chain_singletons[cache_key])
        ELSE With(Instantiate(st, i, TypeConcrete(handler_class), EmptyDict, d),
                  LAMBDA r :
                     IF r.err # "none" THEN r
                     ELSE IF singleton_type = "SINGLETON"
                     THEN R([r.st EXCEPT !.injectors[i].chain_singletons =
                                             Put(@, cache_key, r.v)], "none", r.v)
                     ELSE r)

\* Injector.inject_chain_handler
inject_chain_handler(st, i, chain_type, handler_type, d) ==
    LET cfg == CfgOf(st, i)
        instance == get_chain_handler_instance(cfg, chain_type, handler_type)
        handler_class == get_chain_handler_registration(cfg, chain_type, handler_type)
    IN  IF instance # None THEN R(st, "none", instance)
        ELSE IF handler_class = NoHandler THEN R(st, "ValueError", 0)
        ELSE InjectChainInstance(st, i, chain_type, handler_type, handler_class, d)

\* Injector.inject_chain_handler_by_name
inject_chain_handler_by_name(st, i, chain_type, name, d) ==
    LET cfg == CfgOf(st, i)
        instance == get_chain_handler_instance(cfg, chain_type, name)
        registration == get_chain_handler_registration_by_name(cfg, chain_type, name)
    IN  IF instance # None THEN R(st, "none", instance)
        ELSE IF registration = NoNamedHandler THEN R(st, "ValueError", 0)
        ELSE InjectChainInstance(st, i, chain_type, name, registration.cls, d)

ChainTypes == {"encoding"}
HandlerTypes == {"json"}
HandlerNames == {"json", "json-input"}
HandlerClasses == {"JsonHandler", "JsonInputHandler"}

ChainOps ==
    {OpRegisterChainHandler(ct, h, cls, stype) :
        ct \in ChainTypes, h \in HandlerTypes, cls \in HandlerClasses, stype \in SingletonTypes}
    \cup {OpRegisterChainHandlerByName(ct, n, cls, h, stype) :
        ct \in ChainTypes, n \in HandlerNames, cls \in HandlerClasses, h \in HandlerTypes,
        stype \in SingletonTypes}

InjectChainHandlerCall(i, chain_type, handler_type) ==
    /\ i \in 1..Len(injectors)
    /\ Calls < MaxCalls
    /\ Returns("inject_chain_handler", i, handler_type, chain_type,
               inject_chain_handler(St, i, chain_type, handler_type, MaxDepth))
    /\ UNCHANGED pc

InjectChainHandlerByNameCall(i, chain_type, name) ==
    /\ i \in 1..Len(injectors)
    /\ Calls < MaxCalls
    /\ Returns("inject_chain_handler_by_name", i, name, chain_type,
               inject_chain_handler_by_name(St, i, chain_type, name, MaxDepth))
    /\ UNCHANGED pc

NextChain ==
    \/ \E op \in ChainOps : Configure(op, MaxRegs)
    \/ GetInjector(1)
    \/ \E i \in 1..MaxInjectors, ct \in ChainTypes, h \in HandlerTypes :
           InjectChainHandlerCall(i, ct, h)
    \/ \E i \in 1..MaxInjectors, ct \in ChainTypes, n \in HandlerNames :
           InjectChainHandlerByNameCall(i, ct, n)

SpecChain == Init /\ [][NextChain]_vars

\* C30: every inject_chain_handler_by_name(ct, n) that returns gives an
\* instance of the class registered under the name n, and every
\* inject_chain_handler(ct, h) that returns an instance of the class
\* registered for the handler type h.
C30_ChainBindingsAreSeparate ==
    \A n \in 1..Len(log) :
        log[n].err = "none"
        => /\ log[n].op = "inject_chain_handler_by_name"
              => heap[log[n].v].cls =
                    get_chain_handler_registration_by_name(ConfigOf(log[n].inj),
                                                           log[n].qual, log[n].type).cls
           /\ log[n].op = "inject_chain_handler"
              => heap[log[n].v].cls =
                    get_chain_handler_registration(ConfigOf(log[n].inj),
                                                   log[n].qual, log[n].type)

====
